---- MODULE Spec2Model ----
(***************************************************************************)
(* A model of json-streaming: the blocking pull tokenizer (JsonReader over *)
(* ReaderInner), the non-blocking one with its skip methods, and the       *)
(* scope-tracking writer (JsonWriter, JsonObject, JsonArray) with its      *)
(* formatters.  Bytes are integers 0..255; an Option<u8> is the empty      *)
(* sequence (None) or a one-element sequence (Some(b)).                    *)
(***************************************************************************)
EXTENDS Integers, Sequences, FiniteSets, TLC

VARIABLES
    input,      \* the bytes the byte source (a Cursor) delivers, in order
    rd,         \* the JsonReader: ReaderInner's fields and the source position
    pre,        \* history: the reader as it was when the last next() was called
    last,       \* history: the result of the last next() call
    toks,       \* history: the results of all next() calls so far, in order
    wr,         \* the JsonWriter: sink, formatter, unreported_error
    scopes,     \* the live JsonObject/JsonArray values, outermost first
    wlast,      \* history: what the last writer operation did
    expected,   \* history: the token sequence of the value tree written so far
    phase,      \* which part of a run is active: "write", "read" or "closed"
    call        \* history: the method of the reader that was called last

vars == <<input, rd, pre, last, toks, wr, scopes, wlast, expected, phase, call>>

readerVars == <<input, rd, pre, last, toks>>
writerVars == <<wr, scopes, wlast, expected>>

(***************************************************************************)
(* Bytes                                                                   *)
(***************************************************************************)
B == [ tab |-> 9, lf |-> 10, ff |-> 12, cr |-> 13, bs |-> 8, space |-> 32,
       quote |-> 34, plus |-> 43, comma |-> 44, minus |-> 45, dot |-> 46,
       slash |-> 47, d0 |-> 48, d1 |-> 49, d2 |-> 50, d4 |-> 52, d7 |-> 55,
       d9 |-> 57, colon |-> 58,
       uA |-> 65, uE |-> 69, uF |-> 70, uZ |-> 90,
       lbracket |-> 91, backslash |-> 92, rbracket |-> 93,
       a |-> 97, b |-> 98, c |-> 99, e |-> 101, f |-> 102, l |-> 108,
       n |-> 110, r |-> 114, s |-> 115, t |-> 116, u |-> 117, x |-> 120,
       lbrace |-> 123, rbrace |-> 125 ]

None == <<>>
Some(b) == <<b>>

Max(a, b) == IF a >= b THEN a ELSE b

\* `x as u8`: truncation to the low eight bits
AsU8(x) == x % 256

RECURSIVE Concat(_)
Concat(ss) == IF ss = <<>> THEN <<>> ELSE Head(ss) \o Concat(Tail(ss))

(***************************************************************************)
(* shared/read.rs: Location, results, ReaderInner                          *)
(***************************************************************************)
LocationStart == [offset |-> 0, line |-> 1, column |-> 1]

after_byte(loc, byte) ==
    [ offset |-> loc.offset + 1,
      line   |-> IF byte = B.lf THEN loc.line + 1 ELSE loc.line,
      column |-> IF byte = B.lf THEN 1 ELSE loc.column + 1 ]

\* A result of next(): a token (tag, payload) or an error (tag, msg, loc).
Tok(tag, val) == [tag |-> tag, val |-> val, msg |-> "", loc |-> LocationStart]
ErrTags == {"Parse", "BufferOverflow", "Utf8", "UnexpectedEvent", "UnexpectedToken", "Panic"}
IsErr(res) == res.tag \in ErrTags
OkUnit == Tok("Ok", <<>>)

Ret(r, res) == [r |-> r, res |-> res]

\* A variant whose errors carry the location of the start of the input.
parse_err_at_start(r, msg) ==
    Ret(r, [tag |-> "Parse", val |-> <<>>, msg |-> msg, loc |-> LocationStart])

parse_err(r, msg) ==
    Ret(r, [tag |-> "Parse", val |-> <<>>, msg |-> msg, loc |-> r.cur_location])

buf_overflow(r) ==
    Ret(r, [tag |-> "BufferOverflow", val |-> <<>>, msg |-> "", loc |-> r.cur_location])

\* A panic of the running program (index out of bounds, arithmetic overflow
\* in a build with overflow checks).
Panic(r, msg) ==
    Ret(r, [tag |-> "Panic", val |-> <<>>, msg |-> msg, loc |-> r.cur_location])

ReaderInner_new(cap, lenient_comma_handling) ==
    [ buf |-> [i \in 1..cap |-> 0],
      ind_end_buf |-> 0,
      lenient_comma_handling |-> lenient_comma_handling,
      state |-> "Initial",
      parked_next |-> None,
      cur_location |-> LocationStart,
      reader_pos |-> 0,          \* the Cursor's position in `input`
      overflow_checks |-> TRUE ] \* the build: integer overflow panics

\* A variant that takes the buffer for full one byte early.
append_to_buf_early(r, ch) ==
    IF r.ind_end_buf >= Len(r.buf) - 1
    THEN buf_overflow(r)
    ELSE Ret([r EXCEPT !.buf[r.ind_end_buf + 1] = ch, !.ind_end_buf = @ + 1], OkUnit)

append_to_buf(r, ch) ==
    IF r.ind_end_buf >= Len(r.buf)
    THEN buf_overflow(r)
    ELSE Ret([r EXCEPT !.buf[r.ind_end_buf + 1] = ch, !.ind_end_buf = @ + 1], OkUnit)

\* A variant that takes every code point below 256 for a single byte.
append_code_point_latin1(r, cp) ==
    IF cp <= 255
    THEN append_to_buf(r, AsU8(cp))
    ELSE IF cp <= 2047
    THEN LET a1 == append_to_buf(r, 192 + (AsU8(cp \div 64) % 32))
         IN  IF IsErr(a1.res) THEN a1
             ELSE append_to_buf(a1.r, 128 + (AsU8(cp) % 64))
    ELSE LET a1 == append_to_buf(r, 224 + (AsU8(cp \div 4096) % 16))
         IN  IF IsErr(a1.res) THEN a1
             ELSE LET a2 == append_to_buf(a1.r, 128 + (AsU8(cp \div 64) % 64))
                  IN  IF IsErr(a2.res) THEN a2
                      ELSE append_to_buf(a2.r, 128 + (AsU8(cp) % 64))

append_code_point(r, cp) ==
    IF cp <= 127
    THEN append_to_buf(r, AsU8(cp))
    ELSE IF cp <= 2047
    THEN LET a1 == append_to_buf(r, 192 + (AsU8(cp \div 64) % 32))
         IN  IF IsErr(a1.res) THEN a1
             ELSE append_to_buf(a1.r, 128 + (AsU8(cp) % 64))
    ELSE LET a1 == append_to_buf(r, 224 + (AsU8(cp \div 4096) % 16))
         IN  IF IsErr(a1.res) THEN a1
             ELSE LET a2 == append_to_buf(a1.r, 128 + (AsU8(cp \div 64) % 64))
                  IN  IF IsErr(a2.res) THEN a2
                      ELSE append_to_buf(a2.r, 128 + (AsU8(cp) % 64))

\* core::str::from_utf8: well-formed UTF-8 byte sequences (Unicode table 3-7).
InR(x, lo, hi) == lo <= x /\ x <= hi

RECURSIVE Utf8Valid(_)
Utf8Valid(s) ==
    IF s = <<>> THEN TRUE
    ELSE LET n == Len(s)
             b1 == s[1]
         IN  IF b1 <= 127 THEN Utf8Valid(Tail(s))
             ELSE IF InR(b1, 194, 223)
             THEN n >= 2 /\ InR(s[2], 128, 191) /\ Utf8Valid(SubSeq(s, 3, n))
             ELSE IF InR(b1, 224, 239)
             THEN /\ n >= 3
                  /\ InR(s[2], IF b1 = 224 THEN 160 ELSE 128, IF b1 = 237 THEN 159 ELSE 191)
                  /\ InR(s[3], 128, 191)
                  /\ Utf8Valid(SubSeq(s, 4, n))
             ELSE IF InR(b1, 240, 244)
             THEN /\ n >= 4
                  /\ InR(s[2], IF b1 = 240 THEN 144 ELSE 128, IF b1 = 244 THEN 143 ELSE 191)
                  /\ InR(s[3], 128, 191)
                  /\ InR(s[4], 128, 191)
                  /\ Utf8Valid(SubSeq(s, 5, n))
             ELSE FALSE

\* Ok(&str) with the buffer's content as the payload of a token of kind tag.
buf_as_str(r, tag) ==
    LET content == SubSeq(r.buf, 1, r.ind_end_buf)
    IN  IF Utf8Valid(content)
        THEN Ret(r, Tok(tag, content))
        ELSE Ret(r, [tag |-> "Utf8", val |-> <<>>, msg |-> "", loc |-> LocationStart])

\* Result::unwrap: the value of an Ok, a panic on an Err.
unwrap(x) ==
    IF IsErr(x.res) THEN Panic(x.r, "called unwrap on an Err value") ELSE x

\* A variant that does not look at the lenient flag.
ensure_accept_value_strict(r) ==
    IF r.state \in {"Initial", "BeforeEntry", "AfterKey"}
    THEN Ret(r, OkUnit)
    ELSE parse_err(r, "missing comma")

ensure_accept_value(r) ==
    IF r.state \in {"Initial", "BeforeEntry", "AfterKey"}
    THEN Ret(r, OkUnit)
    ELSE IF r.lenient_comma_handling
         THEN Ret(r, OkUnit)
         ELSE parse_err(r, "missing comma")

\* A variant that lets a scope end after a comma.
ensure_accept_end_nested_lax(r) ==
    CASE r.state \in {"Initial", "AfterValue", "BeforeEntry"} -> Ret(r, OkUnit)
      [] r.state = "AfterKey" -> parse_err(r, "key without a value")

\* A variant that lets a scope end only after a value.
ensure_accept_end_nested_after_value(r) ==
    CASE r.state = "AfterValue" -> Ret(r, OkUnit)
      [] r.state = "Initial" -> parse_err(r, "unexpected end of scope")
      [] r.state = "BeforeEntry" -> parse_err(r, "trailing comma")
      [] r.state = "AfterKey" -> parse_err(r, "key without a value")

ensure_accept_end_nested(r) ==
    CASE r.state \in {"Initial", "AfterValue"} -> Ret(r, OkUnit)
      [] r.state = "BeforeEntry" -> parse_err(r, "trailing comma")
      [] r.state = "AfterKey" -> parse_err(r, "key without a value")

\* A variant that accepts a value in every state.
state_change_for_value_always(r) ==
    Ret([r EXCEPT !.state = "AfterValue"], OkUnit)

state_change_for_value(r) ==
    IF r.state \in {"Initial", "BeforeEntry", "AfterKey"}
    THEN Ret([r EXCEPT !.state = "AfterValue"], OkUnit)
    ELSE parse_err(r, "missing comma")

\* A variant for which the lenient mode accepts a comma in every state.
on_comma_lenient_everywhere(r) ==
    IF r.state = "AfterValue" \/ r.lenient_comma_handling
    THEN Ret([r EXCEPT !.state = "BeforeEntry"], OkUnit)
    ELSE parse_err(r, "unexpected comma")

\* A variant that accepts a comma after a comma.
on_comma_repeated(r) ==
    IF r.state \in {"AfterValue", "BeforeEntry"}
    THEN Ret([r EXCEPT !.state = "BeforeEntry"], OkUnit)
    ELSE parse_err(r, "unexpected comma")

on_comma(r) ==
    IF r.state = "AfterValue"
    THEN Ret([r EXCEPT !.state = "BeforeEntry"], OkUnit)
    ELSE parse_err(r, "unexpected comma")

\* JsonNumber::parse for an integer type: the value of the text, if it is an
\* optional sign followed by digits.
RECURSIVE ParseDigits(_, _)
ParseDigits(s, acc) ==
    IF s = <<>> THEN [ok |-> TRUE, value |-> acc]
    ELSE IF InR(Head(s), B.d0, B.d9)
    THEN ParseDigits(Tail(s), 10 * acc + (Head(s) - B.d0))
    ELSE [ok |-> FALSE, value |-> 0]
JsonNumber_parse(s) ==
    IF s = <<>> \/ s \in {<<B.plus>>, <<B.minus>>} THEN [ok |-> FALSE, value |-> 0]
    ELSE IF Head(s) = B.minus
    THEN LET p == ParseDigits(Tail(s), 0) IN [ok |-> p.ok, value |-> 0 - p.value]
    ELSE IF Head(s) = B.plus THEN ParseDigits(Tail(s), 0)
    ELSE ParseDigits(s, 0)

(***************************************************************************)
(* blocking/read.rs: JsonReader                                            *)
(***************************************************************************)
JsonReader_new(cap, lenient_comma_handling) ==
    ReaderInner_new(cap, lenient_comma_handling)

\* A variant whose byte source does not stay at its end: it starts over after
\* its end was read twice.
read_next_byte_rewinding(r) ==
    IF r.parked_next # None
    THEN [r |-> [r EXCEPT !.parked_next = None], b |-> r.parked_next]
    ELSE IF r.reader_pos < Len(input)
    THEN LET byte == input[r.reader_pos + 1]
         IN  [ r |-> [r EXCEPT !.reader_pos = @ + 1,
                               !.cur_location = after_byte(@, byte)],
               b |-> Some(byte) ]
    ELSE IF r.reader_pos < Len(input) + 2
    THEN [r |-> [r EXCEPT !.reader_pos = @ + 1], b |-> None]
    ELSE [r |-> [r EXCEPT !.reader_pos = 0], b |-> None]

\* A variant that counts a parked byte again when it is read again.
read_next_byte_counting_parked(r) ==
    IF r.parked_next # None
    THEN [r |-> [r EXCEPT !.parked_next = None,
                          !.cur_location = after_byte(@, r.parked_next[1])],
          b |-> r.parked_next]
    ELSE IF r.reader_pos < Len(input)
    THEN LET byte == input[r.reader_pos + 1]
         IN  [ r |-> [r EXCEPT !.reader_pos = @ + 1,
                               !.cur_location = after_byte(@, byte)],
               b |-> Some(byte) ]
    ELSE [r |-> r, b |-> None]

\* The byte source is a Cursor over `input`: it delivers the bytes in order
\* and then None on every further read; it never fails.
read_next_byte(r) ==
    IF r.parked_next # None
    THEN [r |-> [r EXCEPT !.parked_next = None], b |-> r.parked_next]
    ELSE IF r.reader_pos < Len(input)
    THEN LET byte == input[r.reader_pos + 1]
         IN  [ r |-> [r EXCEPT !.reader_pos = @ + 1,
                               !.cur_location = after_byte(@, byte)],
               b |-> Some(byte) ]
    ELSE [r |-> r, b |-> None]

\* A variant for which a tab is no whitespace.
IsWhitespace_no_tab(b) == b \in {B.space, B.lf, B.cr}

IsWhitespace(b) == b \in {B.space, B.tab, B.lf, B.cr}

RECURSIVE consume_whitespace(_)
consume_whitespace(r) ==
    LET n == read_next_byte(r)
    IN  IF n.b = None THEN n.r
        ELSE IF IsWhitespace(n.b[1]) THEN consume_whitespace(n.r)
        ELSE [n.r EXCEPT !.parked_next = n.b]

\* The chain of `if self.read_next_byte()? != Some(..) { return parse_err }` of
\* the three literal functions: the bytes of `rest` are expected one by one.
RECURSIVE consume_literal_rest(_, _, _)
consume_literal_rest(r, rest, msg) ==
    IF rest = <<>> THEN Ret(r, OkUnit)
    ELSE LET n == read_next_byte(r)
         IN  IF n.b # Some(Head(rest)) THEN parse_err(n.r, msg)
             ELSE consume_literal_rest(n.r, Tail(rest), msg)

consume_null_literal(r) ==
    LET c == consume_literal_rest(r, <<B.u, B.l, B.l>>, "incomplete null literal")
    IN  IF IsErr(c.res) THEN c ELSE Ret(c.r, Tok("NullLiteral", <<>>))

consume_true_literal(r) ==
    LET c == consume_literal_rest(r, <<B.r, B.u, B.e>>, "incomplete true literal")
    IN  IF IsErr(c.res) THEN c ELSE Ret(c.r, Tok("BooleanLiteral", <<1>>))

consume_false_literal(r) ==
    LET c == consume_literal_rest(r, <<B.a, B.l, B.s, B.e>>, "incomplete false literal")
    IN  IF IsErr(c.res) THEN c ELSE Ret(c.r, Tok("BooleanLiteral", <<0>>))

\* A variant that knows the hex digits 0-9 and A-F only.
HexDigitValue_upper_only(b) ==
    IF InR(b, B.d0, B.d9) THEN b - B.d0
    ELSE IF InR(b, B.uA, B.uF) THEN b - B.uA + 10
    ELSE 0 - 1

\* u16 arithmetic of parse_unicode_codepoint: `cp << 4` drops the high bits,
\* `cp += d` overflows above 0xFFFF (a panic with overflow checks, a wrap
\* without: both are reported, the build decides).
HexDigitValue(b) ==
    IF InR(b, B.d0, B.d9) THEN b - B.d0
    ELSE IF InR(b, B.a, B.f) THEN b - B.a + 10
    ELSE IF InR(b, B.uA, B.uZ) THEN b - B.uA + 10
    ELSE 0 - 1

RECURSIVE parse_unicode_codepoint_loop(_, _, _)
parse_unicode_codepoint_loop(r, cp, todo) ==
    IF todo = 0 THEN [r |-> r, res |-> OkUnit, cp |-> cp]
    ELSE LET n == read_next_byte(r)
         IN  IF n.b = None
             THEN parse_err(n.r, "incomplete UTF codepoint in string literal") @@ [cp |-> 0]
             ELSE LET shifted == (cp * 16) % 65536
                      d == HexDigitValue(n.b[1])
                  IN  IF d < 0
                      THEN parse_err(n.r, "not a four-digit hex number after \\u") @@ [cp |-> 0]
                      ELSE IF shifted + d > 65535 /\ n.r.overflow_checks
                      THEN Panic(n.r, "attempt to add with overflow") @@ [cp |-> 0]
                      ELSE parse_unicode_codepoint_loop(n.r, (shifted + d) % 65536, todo - 1)

parse_unicode_codepoint(r) == parse_unicode_codepoint_loop(r, 0, 4)

\* A variant for which the end of the input directly after a backslash is an
\* unterminated string.
parse_escape_end_unterminated(r) ==
    LET n == read_next_byte(r)
    IN  IF n.b = None THEN parse_err(n.r, "unterminated string literal")
        ELSE LET b == n.b[1] IN
             CASE b = B.quote     -> append_to_buf(n.r, B.quote)
               [] b = B.backslash -> append_to_buf(n.r, B.backslash)
               [] b = B.slash     -> append_to_buf(n.r, B.slash)
               [] b = B.b         -> append_to_buf(n.r, B.bs)
               [] b = B.f         -> append_to_buf(n.r, B.ff)
               [] b = B.n         -> append_to_buf(n.r, B.lf)
               [] b = B.r         -> append_to_buf(n.r, B.cr)
               [] b = B.t         -> append_to_buf(n.r, B.tab)
               [] b = B.u         ->
                    LET c == parse_unicode_codepoint(n.r)
                    IN  IF IsErr(c.res) THEN Ret(c.r, c.res)
                        ELSE append_code_point(c.r, c.cp)
               [] OTHER -> parse_err(n.r, "invalid escape in string literal")

\* One escape sequence, the backslash already read.
parse_escape(r) ==
    LET n == read_next_byte(r)
    IN  IF n.b = None THEN parse_err(n.r, "invalid escape in string literal")
        ELSE LET b == n.b[1] IN
             CASE b = B.quote     -> append_to_buf(n.r, B.quote)
               [] b = B.backslash -> append_to_buf(n.r, B.backslash)
               [] b = B.slash     -> append_to_buf(n.r, B.slash)
               [] b = B.b         -> append_to_buf(n.r, B.bs)
               [] b = B.f         -> append_to_buf(n.r, B.ff)
               [] b = B.n         -> append_to_buf(n.r, B.lf)
               [] b = B.r         -> append_to_buf(n.r, B.cr)
               [] b = B.t         -> append_to_buf(n.r, B.tab)
               [] b = B.u         ->
                    LET c == parse_unicode_codepoint(n.r)
                    IN  IF IsErr(c.res) THEN Ret(c.r, c.res)
                        ELSE append_code_point(c.r, c.cp)
               [] OTHER -> parse_err(n.r, "invalid escape in string literal")

\* The loop of parse_after_quote: up to and including the closing quote.
RECURSIVE parse_string_content(_)
parse_string_content(r) ==
    LET n == read_next_byte(r)
    IN  IF n.b = None THEN parse_err(n.r, "unterminated string literal")
        ELSE IF n.b[1] = B.quote THEN Ret(n.r, OkUnit)
        ELSE LET a == IF n.b[1] = B.backslash
                      THEN parse_escape(n.r)
                      ELSE append_to_buf(n.r, n.b[1])
             IN  IF IsErr(a.res) THEN a ELSE parse_string_content(a.r)

\* A variant that loses the byte that followed the string.
string_value_unparked(sc, other) ==
    IF IsErr(sc.res) THEN sc
    ELSE buf_as_str(sc.r, "StringLiteral")

\* The end of parse_after_quote. A string value: the state changes as for
\* every value, and the byte that followed the string is parked.
string_value(sc, other) ==
    IF IsErr(sc.res) THEN sc
    ELSE buf_as_str([sc.r EXCEPT !.parked_next = other], "StringLiteral")

\* A variant that accepts a key in every state.
key_or_string_any_state(n) ==
    IF n.b = Some(B.colon)
    THEN buf_as_str([n.r EXCEPT !.state = "AfterKey"], "Key")
    ELSE string_value(state_change_for_value(n.r), n.b)

\* The byte n.b that follows the closing quote and the whitespace after it
\* decides between a key and a string value.
key_or_string(n) ==
    IF n.b = Some(B.colon)
    THEN CASE n.r.state \in {"Initial", "BeforeEntry"} ->
                  buf_as_str([n.r EXCEPT !.state = "AfterKey"], "Key")
           [] n.r.state = "AfterKey" -> parse_err(n.r, "two keys without value")
           [] n.r.state = "AfterValue" -> parse_err(n.r, "missing comma")
    ELSE string_value(state_change_for_value(n.r), n.b)

\* c is the outcome of the loop that reads the content.
after_string_content(c) ==
    IF IsErr(c.res) THEN c ELSE key_or_string(read_next_byte(consume_whitespace(c.r)))

parse_after_quote(r0) ==
    after_string_content(parse_string_content([r0 EXCEPT !.ind_end_buf = 0]))

\* A variant for which a dot ends a number.
IsNumberByte_no_dot(b) ==
    InR(b, B.d0, B.d9) \/ b \in {B.plus, B.minus, B.e, B.uE}

IsNumberByte(b) ==
    InR(b, B.d0, B.d9) \/ b \in {B.plus, B.minus, B.e, B.uE, B.dot}

RECURSIVE parse_number_loop(_)
parse_number_loop(r) ==
    LET n == read_next_byte(r)
    IN  IF n.b = None THEN Ret(n.r, OkUnit)
        ELSE IF IsNumberByte(n.b[1])
        THEN LET a == append_to_buf(n.r, n.b[1])
             IN  IF IsErr(a.res) THEN a ELSE parse_number_loop(a.r)
        ELSE Ret([n.r EXCEPT !.parked_next = n.b], OkUnit)

\* A variant that loses the byte that ended the number.
parse_number_literal_unparked(r, b) ==
    IF Len(r.buf) = 0
    THEN Panic(r, "index out of bounds")
    ELSE LET c == parse_number_loop([r EXCEPT !.buf[1] = b, !.ind_end_buf = 1])
         IN  IF IsErr(c.res) THEN c
             ELSE unwrap(buf_as_str([c.r EXCEPT !.parked_next = None], "NumberLiteral"))

parse_number_literal(r, b) ==
    IF Len(r.buf) = 0
    THEN Panic(r, "index out of bounds")
    ELSE LET c == parse_number_loop([r EXCEPT !.buf[1] = b, !.ind_end_buf = 1])
         IN  IF IsErr(c.res) THEN c
             ELSE unwrap(buf_as_str(c.r, "NumberLiteral"))

\* A variant for which the input must not end after a key.
end_of_stream_not_after_key(r) ==
    IF r.state = "AfterKey" THEN parse_err(r, "key without a value")
    ELSE Ret(r, Tok("EndOfStream", <<>>))

\* The arm `None => Ok(JsonReadEvent::EndOfStream)` of next()
end_of_stream(r) == Ret(r, Tok("EndOfStream", <<>>))

RECURSIVE next(_)
next(r0) ==
    LET n == read_next_byte(consume_whitespace(r0))
        r == n.r
    IN  IF n.b = None THEN end_of_stream(r)
        ELSE LET b == n.b[1] IN
        CASE b = B.comma ->
                 LET c == on_comma(r)
                 IN  IF IsErr(c.res) THEN c ELSE next(c.r)
          [] b = B.lbrace ->
                 LET c == ensure_accept_value(r)
                 IN  IF IsErr(c.res) THEN c
                     ELSE Ret([c.r EXCEPT !.state = "Initial"], Tok("StartObject", <<>>))
          [] b = B.rbrace ->
                 LET c == ensure_accept_end_nested(r)
                 IN  IF IsErr(c.res) THEN c
                     ELSE Ret([c.r EXCEPT !.state = "AfterValue"], Tok("EndObject", <<>>))
          [] b = B.lbracket ->
                 LET c == ensure_accept_value(r)
                 IN  IF IsErr(c.res) THEN c
                     ELSE Ret([c.r EXCEPT !.state = "Initial"], Tok("StartArray", <<>>))
          [] b = B.rbracket ->
                 LET c == ensure_accept_end_nested(r)
                 IN  IF IsErr(c.res) THEN c
                     ELSE Ret([c.r EXCEPT !.state = "AfterValue"], Tok("EndArray", <<>>))
          [] b = B.n ->
                 LET c == state_change_for_value(r)
                 IN  IF IsErr(c.res) THEN c ELSE consume_null_literal(c.r)
          [] b = B.t ->
                 LET c == state_change_for_value(r)
                 IN  IF IsErr(c.res) THEN c ELSE consume_true_literal(c.r)
          [] b = B.f ->
                 LET c == state_change_for_value(r)
                 IN  IF IsErr(c.res) THEN c ELSE consume_false_literal(c.r)
          [] b = B.quote -> parse_after_quote(r)
          [] OTHER ->
                 LET c == state_change_for_value(r)
                 IN  IF IsErr(c.res) THEN c
                     ELSE IF b = B.minus \/ InR(b, B.d0, B.d9)
                          THEN parse_number_literal(c.r, b)
                          ELSE parse_err(c.r, "invalid JSON literal")

\* How many calls of next() are active at the deepest point of the call
\* next(r0): the call itself, and one more for every call that the comma arm
\* makes (in the non-blocking reader: for every boxed future).
RECURSIVE next_depth(_)
next_depth(r0) ==
    LET n == read_next_byte(consume_whitespace(r0))
    IN  IF n.b = Some(B.comma)
        THEN LET c == on_comma(n.r)
             IN  IF IsErr(c.res) THEN 1 ELSE 1 + next_depth(c.r)
        ELSE 1

(***************************************************************************)
(* nonblocking/read.rs: JsonReader                                         *)
(***************************************************************************)
\* The non-blocking reader awaits the bytes of its source where the blocking
\* reader blocks for them; its functions below next() are those of the
\* blocking reader line by line, except the last line of
\* parse_number_literal, which hands a failure of buf_as_str on (`?`).
\* A variant that does not keep the first byte of the number.
nb_parse_number_literal_without_first(r, b) ==
    IF Len(r.buf) = 0
    THEN Panic(r, "index out of bounds")
    ELSE LET c == parse_number_loop([r EXCEPT !.ind_end_buf = 0])
         IN  IF IsErr(c.res) THEN c
             ELSE buf_as_str(c.r, "NumberLiteral")

nb_parse_number_literal(r, b) ==
    IF Len(r.buf) = 0
    THEN Panic(r, "index out of bounds")
    ELSE LET c == parse_number_loop([r EXCEPT !.buf[1] = b, !.ind_end_buf = 1])
         IN  IF IsErr(c.res) THEN c
             ELSE buf_as_str(c.r, "NumberLiteral")

RECURSIVE nb_next(_)
nb_next(r0) ==
    LET n == read_next_byte(consume_whitespace(r0))
        r == n.r
    IN  IF n.b = None THEN end_of_stream(r)
        ELSE LET b == n.b[1] IN
        CASE b = B.comma ->
                 LET c == on_comma(r)
                 IN  IF IsErr(c.res) THEN c ELSE nb_next(c.r)
          [] b = B.lbrace ->
                 LET c == ensure_accept_value(r)
                 IN  IF IsErr(c.res) THEN c
                     ELSE Ret([c.r EXCEPT !.state = "Initial"], Tok("StartObject", <<>>))
          [] b = B.rbrace ->
                 LET c == ensure_accept_end_nested(r)
                 IN  IF IsErr(c.res) THEN c
                     ELSE Ret([c.r EXCEPT !.state = "AfterValue"], Tok("EndObject", <<>>))
          [] b = B.lbracket ->
                 LET c == ensure_accept_value(r)
                 IN  IF IsErr(c.res) THEN c
                     ELSE Ret([c.r EXCEPT !.state = "Initial"], Tok("StartArray", <<>>))
          [] b = B.rbracket ->
                 LET c == ensure_accept_end_nested(r)
                 IN  IF IsErr(c.res) THEN c
                     ELSE Ret([c.r EXCEPT !.state = "AfterValue"], Tok("EndArray", <<>>))
          [] b = B.n ->
                 LET c == state_change_for_value(r)
                 IN  IF IsErr(c.res) THEN c ELSE consume_null_literal(c.r)
          [] b = B.t ->
                 LET c == state_change_for_value(r)
                 IN  IF IsErr(c.res) THEN c ELSE consume_true_literal(c.r)
          [] b = B.f ->
                 LET c == state_change_for_value(r)
                 IN  IF IsErr(c.res) THEN c ELSE consume_false_literal(c.r)
          [] b = B.quote -> parse_after_quote(r)
          [] OTHER ->
                 LET c == state_change_for_value(r)
                 IN  IF IsErr(c.res) THEN c
                     ELSE IF b = B.minus \/ InR(b, B.d0, B.d9)
                          THEN nb_parse_number_literal(c.r, b)
                          ELSE parse_err(c.r, "invalid JSON literal")

\* Err(JsonParseError::UnexpectedToken(self.location()))
unexpected_token(r) ==
    Ret(r, [tag |-> "UnexpectedToken", val |-> <<>>, msg |-> "", loc |-> r.cur_location])

StartTags == {"StartObject", "StartArray"}
EndTags == {"EndObject", "EndArray"}

\* A variant that does not count the scopes that open on the way.
RECURSIVE skip_loop_first_end(_, _)
skip_loop_first_end(c, nesting_level) ==
    IF IsErr(c.res) THEN c
    ELSE IF c.res.tag \in EndTags THEN Ret(c.r, OkUnit)
    ELSE IF c.res.tag = "EndOfStream" THEN unexpected_token(c.r)
    ELSE skip_loop_first_end(nb_next(c.r), nesting_level)

\* The loop of skip_to_end_of_current_scope, having received c from next().
RECURSIVE skip_loop(_, _)
skip_loop(c, nesting_level) ==
    IF IsErr(c.res) THEN c
    ELSE IF c.res.tag \in StartTags
         THEN skip_loop(nb_next(c.r), nesting_level + 1)
    ELSE IF c.res.tag \in EndTags
         THEN IF nesting_level - 1 = 0
              THEN Ret(c.r, OkUnit)
              ELSE skip_loop(nb_next(c.r), nesting_level - 1)
    ELSE IF c.res.tag = "EndOfStream"
         THEN unexpected_token(c.r)
    ELSE skip_loop(nb_next(c.r), nesting_level)

skip_to_end_of_current_scope(r) == skip_loop(nb_next(r), 1)

\* A variant that takes the first token of a nested value for the value.
skip_value_match_one_token(c) ==
    IF IsErr(c.res) THEN c
    ELSE IF c.res.tag \in {"Key", "EndObject", "EndArray", "EndOfStream"}
         THEN unexpected_token(c.r)
    ELSE Ret(c.r, OkUnit)

\* The match of skip_value on c, the result of next().
skip_value_match(c) ==
    IF IsErr(c.res) THEN c
    ELSE IF c.res.tag \in {"Key", "EndObject", "EndArray", "EndOfStream"}
         THEN unexpected_token(c.r)
    ELSE IF c.res.tag \in StartTags
         THEN skip_to_end_of_current_scope(c.r)
    ELSE Ret(c.r, OkUnit)

skip_value(r) == skip_value_match(nb_next(r))

(***************************************************************************)
(* blocking/json_writer.rs: JsonWriter, the formatters                     *)
(***************************************************************************)
\* The result of a writer operation: the writer afterwards and Ok (None) or
\* Err(e) (Some(e)); the errors of the sink are numbered 1, 2, ... in the
\* order in which they occur, and 0 stands for a panic of the program.
WOk(w) == [w |-> w, err |-> None]
WErr(w, e) == [w |-> w, err |-> Some(e)]
WPanic(w) == [w |-> [w EXCEPT !.panicked = TRUE], err |-> Some(0)]
Failed(x) == x.err # None
\* `first?; then(..)`
AndThen(x, Op(_)) == IF Failed(x) THEN x ELSE Op(x.w)

JsonWriter_new(formatter, overflow_checks) ==
    [ sink |-> <<>>,                 \* the bytes the sink has accepted
      formatter |-> formatter,       \* "compact" or "pretty"
      indent_level |-> 0,            \* PrettyFormatter::indent_level
      unreported_error |-> None,
      overflow_checks |-> overflow_checks,  \* the build: overflow panics
      panicked |-> FALSE,
      nerr |-> 0,                    \* how many writes the sink has refused
      nclose |-> 0,                  \* how often the running operation began a close
      plan |-> <<>>,                 \* which of the next writes it refuses
      nops |-> 0 ]                   \* how many operations were called

\* BlockingWrite::write_all of the sink, a black box: it accepts the bytes or
\* refuses them with an error, as the plan of the environment says.
sink_write_all(w, data) ==
    LET w1 == [w EXCEPT !.plan = IF @ = <<>> THEN <<>> ELSE Tail(@)]
    IN  IF w.plan # <<>> /\ Head(w.plan)
        THEN WErr([w1 EXCEPT !.nerr = @ + 1], w.nerr + 1)
        ELSE WOk([w1 EXCEPT !.sink = @ \o data])

flush(w) ==
    IF w.unreported_error # None
    THEN WErr([w EXCEPT !.unreported_error = None], w.unreported_error[1])
    ELSE WOk(w)

write_bytes(w, data) == AndThen(flush(w), LAMBDA w1 : sink_write_all(w1, data))

set_unreported_error(w, e) == [w EXCEPT !.unreported_error = Some(e)]

HexDigit(n) == IF n < 10 THEN B.d0 + n ELSE B.a + (n - 10)

\* A variant that writes a backslash as it is.
EscapedByte_plain_backslash(b) ==
    CASE b = B.quote     -> <<B.backslash, B.quote>>
      [] b = B.bs        -> <<B.backslash, B.b>>
      [] b = B.ff        -> <<B.backslash, B.f>>
      [] b = B.lf        -> <<B.backslash, B.n>>
      [] b = B.cr        -> <<B.backslash, B.r>>
      [] b = B.tab       -> <<B.backslash, B.t>>
      [] OTHER -> IF b < 32
                  THEN <<B.backslash, B.u, B.d0, B.d0, HexDigit(b \div 16), HexDigit(b % 16)>>
                  ELSE <<b>>

\* A variant that writes the hex digits above 9 in upper case.
EscapedByte_upper_hex(b) ==
    CASE b = B.quote     -> <<B.backslash, B.quote>>
      [] b = B.backslash -> <<B.backslash, B.backslash>>
      [] b = B.bs        -> <<B.backslash, B.b>>
      [] b = B.ff        -> <<B.backslash, B.f>>
      [] b = B.lf        -> <<B.backslash, B.n>>
      [] b = B.cr        -> <<B.backslash, B.r>>
      [] b = B.tab       -> <<B.backslash, B.t>>
      [] OTHER -> IF b < 32
                  THEN <<B.backslash, B.u, B.d0, B.d0, B.d0 + (b \div 16),
                         IF b % 16 < 10 THEN B.d0 + (b % 16) ELSE B.uA + ((b % 16) - 10)>>
                  ELSE <<b>>

\* The bytes one byte of a string is written as.
EscapedByte(b) ==
    CASE b = B.quote     -> <<B.backslash, B.quote>>
      [] b = B.backslash -> <<B.backslash, B.backslash>>
      [] b = B.bs        -> <<B.backslash, B.b>>
      [] b = B.ff        -> <<B.backslash, B.f>>
      [] b = B.lf        -> <<B.backslash, B.n>>
      [] b = B.cr        -> <<B.backslash, B.r>>
      [] b = B.tab       -> <<B.backslash, B.t>>
      [] OTHER -> IF b < 32
                  THEN <<B.backslash, B.u, B.d0, B.d0, HexDigit(b \div 16), HexDigit(b % 16)>>
                  ELSE <<b>>

RECURSIVE write_escaped_bytes(_, _)
write_escaped_bytes(w, s) ==
    IF s = <<>> THEN WOk(w)
    ELSE AndThen(write_bytes(w, EscapedByte(Head(s))),
                 LAMBDA w1 : write_escaped_bytes(w1, Tail(s)))

write_escaped_string(w, s) ==
    AndThen(write_bytes(w, <<B.quote>>), LAMBDA w1 :
    AndThen(write_escaped_bytes(w1, s), LAMBDA w2 :
    write_bytes(w2, <<B.quote>>)))

write_bool(w, value) ==
    IF value THEN write_bytes(w, <<B.t, B.r, B.u, B.e>>)
    ELSE write_bytes(w, <<B.f, B.a, B.l, B.s, B.e>>)

RECURSIVE DecimalDigits(_)
DecimalDigits(n) ==
    IF n < 10 THEN <<B.d0 + n>> ELSE DecimalDigits(n \div 10) \o <<B.d0 + (n % 10)>>

\* FormatWrapper::write_raw with an integer: Display hands the sign and the
\* digits to write_str one after the other; the first error is kept and
\* returned.
write_raw_num(w, value) ==
    IF value < 0
    THEN AndThen(write_bytes(w, <<B.minus>>), LAMBDA w1 :
         write_bytes(w1, DecimalDigits(0 - value)))
    ELSE write_bytes(w, DecimalDigits(value))

\* A floating point value (f64 or f32): NaN, an infinity, or a finite value,
\* which is written here by its sign and the shortest decimal digits that
\* identify it, d1.d2..dn * 10^exp; zero has the one digit 0. Rounding to a
\* float is monotone, and 1e-3 and 1e6 round to the two bounds, so the value
\* compares with the bounds as these digits do.
Mantissa(v) == ParseDigits([i \in 1..Len(v.digits) |-> B.d0 + v.digits[i]], 0).value
Pow10(k) == CASE k = 0 -> 1 [] k = 1 -> 10 [] k = 2 -> 100 [] k = 3 -> 1000
              [] k = 4 -> 10000 [] k = 5 -> 100000 [] k = 6 -> 1000000
              [] k = 7 -> 10000000 [] k = 8 -> 100000000 [] k = 9 -> 1000000000
is_finite(v) == v.class = "finite"

\* value.abs() < 10^k, for a finite value of at most nine digits:
\* M * 10^(exp - n + 1) < 10^k
abs_lt_pow10(v, k) ==
    LET shift == k - (v.exp - Len(v.digits) + 1)
    IN  IF Mantissa(v) = 0 THEN TRUE
        ELSE IF shift <= 0 THEN FALSE
        ELSE IF shift > 9 THEN TRUE
        ELSE Mantissa(v) < Pow10(shift)

\* A variant whose upper bound belongs to the range.
in_literal_range_inclusive(v) ==
    /\ abs_lt_pow10(v, 6) \/ (v.digits = <<1>> /\ v.exp = 6)
    /\ ~abs_lt_pow10(v, 0 - 3)

\* value.abs() < UPPER_BOUND_LIT && value.abs() >= LOWER_BOUND_LIT
in_literal_range(v) == abs_lt_pow10(v, 6) /\ ~abs_lt_pow10(v, 0 - 3)

DigitBytes(ds) == [i \in 1..Len(ds) |-> B.d0 + ds[i]]
Zeros(k) == [i \in 1..k |-> B.d0]
SignBytes(v) == IF v.neg THEN <<B.minus>> ELSE <<>>

\* format!("{}", value) for a finite float: the digits with the decimal point
\* in its place, never an exponent
fmt_display(v) ==
    LET n == Len(v.digits) IN
    SignBytes(v) \o
    (IF Mantissa(v) = 0 THEN <<B.d0>>
     ELSE IF v.exp < 0
     THEN <<B.d0, B.dot>> \o Zeros(0 - v.exp - 1) \o DigitBytes(v.digits)
     ELSE IF n <= v.exp + 1
     THEN DigitBytes(v.digits) \o Zeros(v.exp + 1 - n)
     ELSE DigitBytes(SubSeq(v.digits, 1, v.exp + 1)) \o <<B.dot>>
            \o DigitBytes(SubSeq(v.digits, v.exp + 2, n)))

\* format!("{:e}", value) for a finite float: d1[.d2..dn]e[-]exp
fmt_lower_exp(v) ==
    SignBytes(v) \o <<B.d0 + v.digits[1]>>
      \o (IF Len(v.digits) > 1 THEN <<B.dot>> \o DigitBytes(Tail(v.digits)) ELSE <<>>)
      \o <<B.e>>
      \o (IF v.exp < 0 THEN <<B.minus>> \o DecimalDigits(0 - v.exp) ELSE DecimalDigits(v.exp))

\* FormatWrapper::write_f64 and write_f32, which have the same text: the
\* pieces of the formatted number go to write_str one after the other, and
\* the first error is kept and returned; on a sink that accepts them they
\* arrive as one text.
write_float(w, v) ==
    IF is_finite(v)
    THEN IF in_literal_range(v)
         THEN write_bytes(w, fmt_display(v))
         ELSE write_bytes(w, fmt_lower_exp(v))
    ELSE write_bytes(w, <<B.n, B.u, B.l, B.l>>)

write_f64(w, value) == write_float(w, value)
write_f32(w, value) == write_float(w, value)

\* The length of PrettyFormatter's INDENT string.
IndentLen == 242

\* usize arithmetic on indent_level: a negative number stands for the value
\* wrapped around below zero.
PrettyFormatter_indent(w) ==
    IF w.indent_level < 0 \/ 2 * w.indent_level + 1 > IndentLen
    THEN WPanic(w)
    ELSE sink_write_all(w, <<B.lf>> \o [i \in 1..(2 * w.indent_level) |-> B.space])

formatter_after_key(w) ==
    IF w.formatter = "pretty" THEN sink_write_all(w, <<B.space>>) ELSE WOk(w)

formatter_after_start_nested(w) ==
    IF w.formatter = "pretty" THEN WOk([w EXCEPT !.indent_level = @ + 1]) ELSE WOk(w)

formatter_after_element(w) == WOk(w)

formatter_before_end_nested(w0, is_empty) ==
    LET w == [w0 EXCEPT !.nclose = @ + 1]
    IN  IF w.formatter = "pretty"
        THEN IF w.indent_level = 0 /\ w.overflow_checks
             THEN WPanic(w)
             ELSE LET w1 == [w EXCEPT !.indent_level = @ - 1]
                  IN  IF ~is_empty THEN PrettyFormatter_indent(w1) ELSE WOk(w1)
        ELSE WOk(w)

formatter_indent(w) ==
    IF w.formatter = "pretty" THEN PrettyFormatter_indent(w) ELSE WOk(w)

write_format_after_key(w) == AndThen(flush(w), formatter_after_key)
write_format_after_start_nested(w) == AndThen(flush(w), formatter_after_start_nested)
write_format_after_element(w) == AndThen(flush(w), formatter_after_element)
write_format_before_end_nested(w, is_empty) ==
    AndThen(flush(w), LAMBDA w1 : formatter_before_end_nested(w1, is_empty))
write_format_indent(w) == AndThen(flush(w), formatter_indent)

into_inner(w) == flush(w)

(***************************************************************************)
(* blocking/object.rs, blocking/array.rs: JsonObject, JsonArray            *)
(***************************************************************************)
\* The result of an operation of a scope: as above, with the scope's fields.
WithScope(x, sc) == [w |-> x.w, err |-> x.err, sc |-> sc]

OpenBracket(kind) == IF kind = "object" THEN <<B.lbrace>> ELSE <<B.lbracket>>
CloseBracket(kind) == IF kind = "object" THEN <<B.rbrace>> ELSE <<B.rbracket>>

\* JsonObject::new, JsonArray::new
Scope_new(w, kind) ==
    WithScope(AndThen(write_bytes(w, OpenBracket(kind)), write_format_after_start_nested),
              [kind |-> kind, is_initial |-> TRUE, is_ended |-> FALSE])

\* JsonObject::write_key
write_key(w, sc, key) ==
    LET sep == IF ~sc.is_initial
               THEN AndThen(write_bytes(w, <<B.comma>>), write_format_after_element)
               ELSE WOk(w)
    IN  IF Failed(sep) THEN WithScope(sep, sc)
        ELSE WithScope(
               AndThen(write_format_indent(sep.w), LAMBDA w1 :
               AndThen(write_escaped_string(w1, key), LAMBDA w2 :
               AndThen(write_bytes(w2, <<B.colon>>), write_format_after_key))),
               [sc EXCEPT !.is_initial = FALSE])

\* A variant that writes the comma before the first element too.
handle_initial_always_comma(w, sc) ==
    LET sep == AndThen(write_bytes(w, <<B.comma>>), write_format_after_element)
    IN  IF Failed(sep) THEN WithScope(sep, sc)
        ELSE WithScope(write_format_indent(sep.w), [sc EXCEPT !.is_initial = FALSE])

\* JsonArray::handle_initial
handle_initial(w, sc) ==
    LET sep == IF sc.is_initial
               THEN WOk(w)
               ELSE AndThen(write_bytes(w, <<B.comma>>), write_format_after_element)
    IN  IF Failed(sep) THEN WithScope(sep, sc)
        ELSE WithScope(write_format_indent(sep.w), [sc EXCEPT !.is_initial = FALSE])

\* What every child write starts with: the key of an object's entry, or the
\* separator of an array's element.
begin_child(w, sc, key) ==
    IF sc.kind = "object" THEN write_key(w, sc, key) ELSE handle_initial(w, sc)

\* The value part of write_string_value, write_.._value (integers),
\* write_bool_value, write_null_value.
write_scalar(w, v) ==
    CASE v.kind = "string" -> write_escaped_string(w, v.str)
      [] v.kind = "int"    -> write_raw_num(w, v.num)
      [] v.kind = "bool"   -> write_bool(w, v.flag)
      [] v.kind = "null"   -> write_bytes(w, <<B.n, B.u, B.l, B.l>>)

write_value(w, sc, key, v) ==
    LET k == begin_child(w, sc, key)
    IN  IF Failed(k) THEN k ELSE WithScope(write_scalar(k.w, v), k.sc)

\* start_object, start_array: the parent's fields in sc, the child's in child
start_nested(w, sc, key, kind) ==
    LET k == begin_child(w, sc, key)
    IN  IF Failed(k) THEN k @@ [child |-> None]
        ELSE LET n == Scope_new(k.w, kind)
             IN  [w |-> n.w, err |-> n.err, sc |-> k.sc,
                  child |-> IF Failed(n) THEN None ELSE Some(n.sc)]

\* JsonObject::_end, JsonArray::_end
scope_end(w, sc) ==
    LET x == AndThen(write_format_before_end_nested(w, sc.is_initial), LAMBDA w1 :
             write_bytes(w1, CloseBracket(sc.kind)))
    IN  IF Failed(x) THEN WithScope(x, sc)
        ELSE WithScope(x, [sc EXCEPT !.is_ended = TRUE])

\* A variant that throws the error of the close away.
scope_drop_silent(w, sc) ==
    IF ~sc.is_ended THEN scope_end(w, sc).w ELSE w

\* A variant whose close does not look at the stored error first: it writes
\* the closing bracket, and its own error takes the place of a stored one.
scope_drop_overwriting(w, sc) ==
    IF ~sc.is_ended
    THEN LET x == scope_end([w EXCEPT !.unreported_error = None], sc)
         IN  IF Failed(x) /\ ~x.w.panicked
             THEN set_unreported_error(x.w, x.err[1])
             ELSE x.w
    ELSE w

\* Drop for JsonObject, JsonArray: the writer afterwards
scope_drop(w, sc) ==
    IF ~sc.is_ended
    THEN LET x == scope_end(w, sc)
         IN  IF Failed(x) /\ ~x.w.panicked
             THEN set_unreported_error(x.w, x.err[1])
             ELSE x.w
    ELSE w

\* JsonObject::end, JsonArray::end: _end(), then the value is dropped
scope_end_explicit(w, sc) ==
    LET x == scope_end(w, sc)
    IN  IF x.w.panicked THEN [w |-> x.w, err |-> x.err]
        ELSE [w |-> scope_drop(x.w, x.sc), err |-> x.err]

(***************************************************************************)
(* Reading: the inputs, and the one operation of the reader, next()        *)
(***************************************************************************)
MaxPieces == 3
MaxEosCalls == 2

\* {"a":1}\n and {"b":2}\n : the two lines of the JSON-lines example
JsonLine1 == <<B.lbrace, B.quote, B.a, B.quote, B.colon, B.d1, B.rbrace, B.lf>>
JsonLine2 == <<B.lbrace, B.quote, B.b, B.quote, B.colon, B.d2, B.rbrace, B.lf>>
JsonLines == JsonLine1 \o JsonLine2
\* {"a":1 "b":2} : an object whose second entry lacks the comma
MissingCommaObject ==
    <<B.lbrace, B.quote, B.a, B.quote, B.colon, B.d1, B.space,
      B.quote, B.b, B.quote, B.colon, B.d2, B.rbrace>>

\* "b" : a key with whitespace in front of its colon
SpacedKey == <<B.quote, B.b, B.quote, B.space, B.colon>>

Pieces ==
    { <<B.lbrace>>, <<B.rbrace>>, <<B.lbracket>>, <<B.rbracket>>,
      <<B.comma>>, <<B.colon>>, <<B.space>>,
      <<B.quote, B.a, B.quote>>, <<B.d1>>, <<B.n, B.u, B.l, B.l>>,
      SpacedKey, JsonLine1, JsonLine2, MissingCommaObject }

Inputs == { Concat(ps) : ps \in UNION { [1..k -> Pieces] : k \in 0..MaxPieces } }

BufCap == 2

NoResult == Tok("NoCall", <<>>)

IdleWriter == JsonWriter_new("compact", TRUE)

IdleWLast == [op |-> "none", res |-> None, sink_before |-> <<>>,
              stored_before |-> None, nerr_before |-> 0, n_before |-> 0,
              nclose |-> 0]

EosCount == Cardinality({ i \in 1..Len(toks) : toks[i].tag = "EndOfStream" })

Init ==
    /\ input \in Inputs
    /\ \E lenient \in BOOLEAN : rd = JsonReader_new(BufCap, lenient)
    /\ pre = rd
    /\ last = NoResult
    /\ toks = <<>>
    /\ wr = IdleWriter
    /\ scopes = <<>>
    /\ wlast = IdleWLast
    /\ expected = <<>>
    /\ call = "none"
    /\ phase = "read"

\* One call of JsonReader::next() by the application.
ReaderNext ==
    /\ phase = "read"
    /\ last.tag # "Panic"
    /\ EosCount < MaxEosCalls
    /\ LET c == next(rd)
       IN  /\ rd' = c.r
           /\ last' = c.res
           /\ toks' = Append(toks, c.res)
    /\ pre' = rd
    /\ call' = "next"
    /\ UNCHANGED <<input, wr, scopes, wlast, expected, phase>>

Next == ReaderNext

Spec == Init /\ [][Next]_vars

(***************************************************************************)
(* What a call of next() had in front of it                                *)
(***************************************************************************)
\* The bytes a reader has not examined yet: the parked byte, then the rest
\* of the source.
Rest(r) == r.parked_next \o SubSeq(input, r.reader_pos + 1, Len(input))

RECURSIVE SkipWs(_)
SkipWs(s) == IF s # <<>> /\ IsWhitespace(Head(s)) THEN SkipWs(Tail(s)) ELSE s

StartsWith(s, p) == Len(s) >= Len(p) /\ SubSeq(s, 1, Len(p)) = p

IsParse(res, msg) == res.tag = "Parse" /\ res.msg = msg

\* A comma in front of the call, accepted from AfterValue, is consumed inside
\* the call: what follows it is then tokenized from BeforeEntry.
CommaFirst == LET s == SkipWs(Rest(pre)) IN
    s # <<>> /\ Head(s) = B.comma /\ pre.state = "AfterValue"
EffState == IF CommaFirst THEN "BeforeEntry" ELSE pre.state
EffRest == LET s == SkipWs(Rest(pre)) IN IF CommaFirst THEN SkipWs(Tail(s)) ELSE s

AcceptStates == {"Initial", "BeforeEntry", "AfterKey"}
ScalarTags == {"StringLiteral", "NumberLiteral", "BooleanLiteral", "NullLiteral"}
ScalarStart(b) == b \in {B.n, B.t, B.f, B.minus, B.quote} \/ InR(b, B.d0, B.d9)
CommaErrors == {"missing comma", "unexpected comma", "trailing comma",
                "key without a value", "two keys without value"}
Called == last.tag # "NoCall"
Strict == ~pre.lenient_comma_handling

\* C1: in strict mode every (state, input class) pair behaves as the
\* transition table says: a value start is accepted from Initial, BeforeEntry
\* and AfterKey (a scalar leads to AfterValue, an opening bracket to Initial)
\* and fails with "missing comma" from AfterValue; a comma is accepted only
\* from AfterValue (leading to BeforeEntry) and fails with "unexpected comma"
\* elsewhere; a closing bracket is accepted from Initial and AfterValue
\* (leading to AfterValue), fails with "trailing comma" from BeforeEntry and
\* with "key without a value" from AfterKey.
C1_StateMachineTable ==
    (Called /\ Strict) =>
        IF EffRest = <<>>
        THEN last.tag = "EndOfStream" /\ rd.state = EffState
        ELSE LET b == Head(EffRest) IN
          CASE b = B.comma -> IsParse(last, "unexpected comma")
            [] b \in {B.lbrace, B.lbracket} ->
                 IF EffState \in AcceptStates
                 THEN /\ last.tag = (IF b = B.lbrace THEN "StartObject" ELSE "StartArray")
                      /\ rd.state = "Initial"
                 ELSE IsParse(last, "missing comma")
            [] b \in {B.rbrace, B.rbracket} ->
                 IF EffState \in {"Initial", "AfterValue"}
                 THEN /\ last.tag = (IF b = B.rbrace THEN "EndObject" ELSE "EndArray")
                      /\ rd.state = "AfterValue"
                 ELSE IF EffState = "BeforeEntry"
                 THEN IsParse(last, "trailing comma")
                 ELSE IsParse(last, "key without a value")
            [] ScalarStart(b) ->
                 /\ last.tag \in ScalarTags => (EffState \in AcceptStates /\ rd.state = "AfterValue")
                 /\ EffState = "AfterValue" =>
                        /\ IsErr(last)
                        /\ (b # B.quote => IsParse(last, "missing comma"))
                        /\ (last.tag = "Parse" /\ last.msg \in CommaErrors)
                               => last.msg = "missing comma"
                 /\ (EffState \in AcceptStates /\ b # B.quote) =>
                        /\ ~(last.tag = "Parse" /\ last.msg \in CommaErrors)
                        /\ ~IsErr(last) => last.tag \in ScalarTags
                 /\ (EffState \in AcceptStates /\ b = B.quote /\ last.tag = "Parse"
                        /\ last.msg \in CommaErrors)
                        => (EffState = "AfterKey" /\ last.msg = "two keys without value")
            [] OTHER -> IsErr(last)

\* C1 witness: a closing bracket directly after an accepted comma.
C1_Witness ==
    /\ Called /\ Strict /\ CommaFirst
    /\ EffRest # <<>> /\ Head(EffRest) = B.rbracket
    /\ IsParse(last, "trailing comma")

\* C2: once next() has returned EndOfStream, every later call returns
\* EndOfStream as well.
C2_EndOfStreamIdempotent ==
    \A i \in 1..Len(toks) : \A j \in i..Len(toks) :
        toks[i].tag = "EndOfStream" => toks[j].tag = "EndOfStream"

\* C2 witness: next() was called again after it had returned EndOfStream,
\* with tokens before it.
C2_Witness ==
    /\ Len(toks) >= 3
    /\ toks[Len(toks) - 1].tag = "EndOfStream"
    /\ toks[1].tag # "EndOfStream"

JsonLinesTokens ==
    << Tok("StartObject", <<>>), Tok("Key", <<B.a>>), Tok("NumberLiteral", <<B.d1>>),
       Tok("EndObject", <<>>),
       Tok("StartObject", <<>>), Tok("Key", <<B.b>>), Tok("NumberLiteral", <<B.d2>>),
       Tok("EndObject", <<>>), Tok("EndOfStream", <<>>) >>

\* C7: the two-line input {"a":1}\n{"b":2}\n is tokenized without error by
\* a lenient reader (both objects, then EndOfStream), and a strict reader
\* fails on it with "missing comma" when it has read the second '{'.
C7_JsonLines ==
    input = JsonLines =>
        \A i \in 1..Len(toks) :
            IF rd.lenient_comma_handling
            THEN i <= Len(JsonLinesTokens) => toks[i] = JsonLinesTokens[i]
            ELSE /\ i <= 4 => toks[i] = JsonLinesTokens[i]
                 /\ i = 5 => /\ IsParse(toks[i], "missing comma")
                             /\ toks[i].loc.offset = Len(JsonLine1) + 1

\* C7 witness: the lenient reader has reached EndOfStream on that input.
C7_Witness ==
    /\ input = JsonLines /\ rd.lenient_comma_handling
    /\ Len(toks) = Len(JsonLinesTokens) /\ last.tag = "EndOfStream"

\* A complete scalar lexeme, not a key, is what the call had in front of it.
ScalarAhead ==
    LET s == SkipWs(Rest(pre)) IN
    \/ StartsWith(s, <<B.n, B.u, B.l, B.l>>)
    \/ StartsWith(s, <<B.d1>>)
    \/ /\ StartsWith(s, <<B.quote, B.a, B.quote>>)
       /\ LET t == SkipWs(SubSeq(s, 4, Len(s))) IN t = <<>> \/ Head(t) # B.colon

\* C8 (as claimed): in lenient mode a scalar that directly follows a
\* completed value without a comma is accepted and emitted as its token, the
\* state staying AfterValue.
C8_LenientScalarAccepted ==
    (/\ Called /\ pre.lenient_comma_handling /\ pre.state = "AfterValue" /\ ScalarAhead
     /\ \A i \in 1..(Len(toks) - 1) : ~IsErr(toks[i]))
        => (last.tag \in ScalarTags /\ rd.state = "AfterValue")

MissingCommaObjectTokens ==
    << Tok("StartObject", <<>>), Tok("Key", <<B.a>>), Tok("NumberLiteral", <<B.d1>>),
       Tok("Key", <<B.b>>), Tok("NumberLiteral", <<B.d2>>),
       Tok("EndObject", <<>>), Tok("EndOfStream", <<>>) >>

\* C9 (as claimed): in lenient mode the object {"a":1 "b":2}, whose second
\* key follows the first value without a comma, is tokenized without a
\* "missing comma" error, the key being emitted as a Key token.
C9_LenientKeyAccepted ==
    (input = MissingCommaObject /\ rd.lenient_comma_handling) =>
        \A i \in 1..Len(toks) :
            i <= Len(MissingCommaObjectTokens) => toks[i] = MissingCommaObjectTokens[i]

\* A string is what the call had in front of it (the strings of Inputs have
\* one content byte), and what follows the string's closing quote and the
\* whitespace after it.
StringAhead == Len(EffRest) >= 3 /\ EffRest[1] = B.quote /\ EffRest[3] = B.quote
AfterString == SkipWs(SubSeq(EffRest, 4, Len(EffRest)))
ColonAfterString == AfterString # <<>> /\ Head(AfterString) = B.colon

\* C12: a string followed, after optional whitespace, by ':' is returned as
\* a Key only in state Initial or BeforeEntry, and the state is then
\* AfterKey; in state AfterKey the call fails with "two keys without value"
\* and in state AfterValue with "missing comma" (in both comma modes).
C12_KeyByState ==
    (Called /\ StringAhead /\ ColonAfterString) =>
        CASE EffState \in {"Initial", "BeforeEntry"} ->
                  last = Tok("Key", <<EffRest[2]>>) /\ rd.state = "AfterKey"
          [] EffState = "AfterKey" ->
                  IsParse(last, "two keys without value") /\ rd.state = "AfterKey"
          [] EffState = "AfterValue" ->
                  IsParse(last, "missing comma") /\ rd.state = "AfterValue"

\* C12 witness: a second key directly after a key.
C12_Witness ==
    /\ Called /\ StringAhead /\ ColonAfterString
    /\ EffState = "AfterKey" /\ IsParse(last, "two keys without value")

\* C13: when a call that had a string in front of it returns a token, then
\* whitespace after the closing quote was skipped and the byte after it
\* decided: after a ':' the token is a Key and the ':' is consumed; after
\* any other byte, or at the end of the input, the token is a StringLiteral
\* and that byte is parked, so that the next call examines it first. The
\* only errors of such a call are those of the state machine.
C13_ByteAfterStringDecides ==
    (Called /\ StringAhead) =>
        /\ IsErr(last) => (last.tag = "Parse" /\ last.msg \in CommaErrors)
        /\ ~IsErr(last) =>
              IF ColonAfterString
              THEN /\ last = Tok("Key", <<EffRest[2]>>)
                   /\ rd.parked_next = None
                   /\ Rest(rd) = Tail(AfterString)
              ELSE /\ last = Tok("StringLiteral", <<EffRest[2]>>)
                   /\ rd.parked_next =
                         (IF AfterString = <<>> THEN None ELSE Some(Head(AfterString)))
                   /\ Rest(rd) = AfterString

\* C13 witness: a string value, whitespace, and a closing bracket that is
\* parked for the next call.
C13_Witness ==
    /\ Called /\ StringAhead /\ last.tag = "StringLiteral"
    /\ Len(EffRest) >= 5 /\ EffRest[4] = B.space
    /\ rd.parked_next = Some(B.rbracket)

C27_WitnessOverflow ==
    /\ call = "next"
    /\ last.tag = "BufferOverflow"
    /\ nb_next(pre).res = last

\* The newlines among the first n bytes of the input
NewlinesIn(n) == { i \in 1..n : input[i] = B.lf }
LastNewline(n) ==
    IF NewlinesIn(n) = {} THEN 0
    ELSE CHOOSE i \in NewlinesIn(n) : \A j \in NewlinesIn(n) : j <= i

\* The location of a reader that has read n bytes from its source: offset n,
\* one line more than newlines read, and the column one more than the bytes
\* read since the last newline.
LocationOf(n) ==
    [ offset |-> n,
      line   |-> 1 + Cardinality(NewlinesIn(n)),
      column |-> n - LastNewline(n) + 1 ]

\* C28: the location changes only when a byte is read from the source: it
\* then advances by one in offset, and to column 1 of the next line after a
\* newline and by one column after every other byte; a call that only reads
\* the parked byte again leaves it as it is. So the offset is the number
\* of bytes read from the source, and it never decreases.
C28_LocationCountsBytesRead ==
    [][ /\ rd'.reader_pos >= rd.reader_pos
        /\ rd'.cur_location = LocationOf(rd'.reader_pos)
        /\ rd'.cur_location.offset >= rd.cur_location.offset
        /\ (rd'.reader_pos = rd.reader_pos => rd'.cur_location = rd.cur_location) ]_vars

\* C28 witness: a call read the parked byte again, in the second line, and
\* bytes after it.
C28_Witness ==
    /\ call = "next"
    /\ pre.parked_next # None
    /\ pre.cur_location.line >= 2
    /\ rd.cur_location.column > pre.cur_location.column

\* C28 witness: a call read the parked byte again and nothing else.
C28_WitnessParkedOnly ==
    /\ call = "next"
    /\ pre.parked_next # None
    /\ ~IsErr(last) /\ last.tag # "EndOfStream"
    /\ rd.reader_pos = pre.reader_pos

\* C30: a call that has nothing but whitespace in front of it, or a comma it
\* accepts and then nothing but whitespace, returns EndOfStream and no error
\* in every state: at the top level, in an unclosed object or array, after
\* a key, and after the comma; the state stays as it is (BeforeEntry after
\* the comma).
C30_EndOfStreamInEveryState ==
    (Called /\ EffRest = <<>>) =>
        /\ last = Tok("EndOfStream", <<>>)
        /\ rd.state = EffState
        /\ rd.reader_pos = Len(input)

\* C30 witness: the input ended directly after a key.
C30_Witness ==
    /\ Called /\ EffRest = <<>>
    /\ pre.state = "AfterKey"
    /\ last.tag = "EndOfStream"

\* C30 witness: the input ended directly after a comma.
C30_WitnessAfterComma ==
    /\ Called /\ EffRest = <<>> /\ CommaFirst
    /\ last.tag = "EndOfStream"

\* C30 witness: the input is `{` or `[`.
C30_WitnessUnclosed ==
    /\ Called /\ Len(toks) = 2
    /\ input \in {<<B.lbrace>>, <<B.lbracket>>}
    /\ last.tag = "EndOfStream"

\* C37: a call of next() calls itself at most once, so that at most two
\* calls are active at a time, whatever the input: it calls itself exactly
\* when it has a comma in front of it in state AfterValue, the comma sets
\* BeforeEntry, and a second comma directly after it (whitespace aside)
\* fails with "unexpected comma" instead of a further call.
C37_OneReentryAfterComma ==
    call = "next" =>
        /\ next_depth(pre) <= 2
        /\ next_depth(pre) = 2 <=> CommaFirst
        /\ (CommaFirst /\ EffRest # <<>> /\ Head(EffRest) = B.comma) =>
               /\ IsParse(last, "unexpected comma")
               /\ rd.state = "BeforeEntry"

\* C37 witness: a call had two commas in front of it after a value.
C37_Witness ==
    /\ call = "next" /\ CommaFirst
    /\ EffRest # <<>> /\ Head(EffRest) = B.comma
    /\ next_depth(pre) = 2
    /\ IsParse(last, "unexpected comma")

\* The kinds of the containers that a token sequence leaves open, innermost
\* last: a start token opens one, an end token of either kind closes the
\* innermost one, if there is one.
RECURSIVE OpenKinds(_)
OpenKinds(ts) ==
    IF ts = <<>> THEN <<>>
    ELSE LET before == OpenKinds(SubSeq(ts, 1, Len(ts) - 1))
             t == ts[Len(ts)]
         IN  CASE t.tag = "StartObject" -> Append(before, "object")
               [] t.tag = "StartArray" -> Append(before, "array")
               [] t.tag \in {"EndObject", "EndArray"} /\ before # <<>> ->
                      SubSeq(before, 1, Len(before) - 1)
               [] OTHER -> before

\* The containers that were open when the last call was made
OpenBefore == OpenKinds(SubSeq(toks, 1, Len(toks) - 1))

ClosingAhead ==
    /\ Called /\ EffRest # <<>>
    /\ Head(EffRest) \in {B.rbrace, B.rbracket}
    /\ EffState \in {"Initial", "AfterValue"}

\* C31: in both comma modes, a call in state Initial or AfterValue that has
\* a closing bracket in front of it returns EndObject for `}` and EndArray
\* for `]` and leaves the state AfterValue, whichever containers are open;
\* the input `[}` gives StartArray and then EndObject, and the inputs `}`
\* and `]` give EndObject and EndArray as their first token.
C31_ClosingBracketsNotMatched ==
    /\ ClosingAhead =>
           /\ last = Tok(IF Head(EffRest) = B.rbrace THEN "EndObject" ELSE "EndArray", <<>>)
           /\ rd.state = "AfterValue"
    /\ (input = <<B.lbracket, B.rbrace>> /\ Len(toks) >= 2) =>
           /\ toks[1] = Tok("StartArray", <<>>)
           /\ toks[2] = Tok("EndObject", <<>>)
    /\ (input = <<B.rbrace>> /\ Len(toks) >= 1) => toks[1] = Tok("EndObject", <<>>)
    /\ (input = <<B.rbracket>> /\ Len(toks) >= 1) => toks[1] = Tok("EndArray", <<>>)

\* C31 witness: a `}` came after a value of an open array.
C31_Witness ==
    /\ ClosingAhead
    /\ OpenBefore = <<"array">>
    /\ pre.state = "AfterValue"
    /\ last.tag = "EndObject"

\* C31 witness: a `]` was the first token, with no container open.
C31_WitnessLone ==
    /\ ClosingAhead
    /\ Len(toks) = 1 /\ OpenBefore = <<>>
    /\ last.tag = "EndArray"

\* C31 witness: the input `[}` was read.
C31_WitnessMixed ==
    /\ input = <<B.lbracket, B.rbrace>>
    /\ Len(toks) = 2 /\ last.tag = "EndObject"

(***************************************************************************)
(* Reading numbers and bytes that start no token                           *)
(***************************************************************************)
MaxLexPieces == 3

\* "a": a key
PlainKey == <<B.quote, B.a, B.quote, B.colon>>

\* The digits 0 and 9 with the bytes next to them ('/' and ':'), the other
\* bytes of numbers, a letter, and what it takes to reach every state.
LexPieces ==
    { <<B.d0>>, <<B.d9>>, <<B.slash>>, <<B.colon>>,
      <<B.minus>>, <<B.plus>>, <<B.dot>>, <<B.e>>, <<B.uE>>, <<B.x>>,
      <<B.space>>, <<B.comma>>, <<B.lbracket>>, <<B.rbracket>>, PlainKey }

LexInputs == { Concat(ps) : ps \in UNION { [1..k -> LexPieces] : k \in 0..MaxLexPieces } }

\* The token buffer holds every token of the input.
InitLex ==
    /\ input \in LexInputs
    /\ \E lenient \in BOOLEAN : rd = JsonReader_new(Len(input) + 1, lenient)
    /\ pre = rd
    /\ last = NoResult
    /\ toks = <<>>
    /\ wr = IdleWriter
    /\ scopes = <<>>
    /\ wlast = IdleWLast
    /\ expected = <<>>
    /\ call = "none"
    /\ phase = "read"

SpecLex == InitLex /\ [][Next]_vars

Digits == {B.d0, B.d1, B.d2, B.d4, B.d7, B.d9}
NumberStarts == Digits \cup {B.minus}
NumberBytes == Digits \cup {B.plus, B.minus, B.e, B.uE, B.dot}

RECURSIVE NumberRun(_)
\* The longest prefix of s that consists of bytes of numbers
NumberRun(s) ==
    IF s # <<>> /\ Head(s) \in NumberBytes THEN <<Head(s)>> \o NumberRun(Tail(s)) ELSE <<>>

NumberAhead == <<Head(EffRest)>> \o NumberRun(Tail(EffRest))
AfterNumber == SubSeq(EffRest, Len(NumberAhead) + 1, Len(EffRest))

\* C14: a call that has '-' or a digit in front of it, in a state that
\* accepts a value, returns a NumberLiteral whose payload is that byte and
\* the longest run of bytes from 0-9 + - e E . that directly follows it,
\* whatever their order; the first byte after the run is parked for the next
\* call. No other first byte gives a NumberLiteral: a '.', '+', 'e' or 'E'
\* in front of the call is rejected with "invalid JSON literal".
C14_NumberIsLongestRun ==
    (Called /\ EffRest # <<>> /\ EffState \in AcceptStates) =>
        /\ Head(EffRest) \in NumberStarts =>
              /\ last = Tok("NumberLiteral", NumberAhead)
              /\ rd.state = "AfterValue"
              /\ rd.parked_next =
                    (IF AfterNumber = <<>> THEN None ELSE Some(Head(AfterNumber)))
              /\ Rest(rd) = AfterNumber
        /\ last.tag = "NumberLiteral" => Head(EffRest) \in NumberStarts
        /\ Head(EffRest) \in NumberBytes \ NumberStarts =>
              IsParse(last, "invalid JSON literal")

\* C14 witness: 9. is returned as a number, the letter after it parked.
C14_Witness ==
    /\ Called /\ last = Tok("NumberLiteral", <<B.d9, B.dot>>)
    /\ rd.parked_next = Some(B.x)

\* C14 witness of the other half: .9 is rejected.
C14_WitnessLeadingDot ==
    /\ Called /\ input = <<B.dot, B.d9>> /\ Len(toks) = 1
    /\ IsParse(last, "invalid JSON literal")

TokenStarts ==
    NumberStarts \cup {B.comma, B.lbrace, B.rbrace, B.lbracket, B.rbracket,
                       B.n, B.t, B.f, B.quote}
NoTokenAhead == Called /\ EffRest # <<>> /\ Head(EffRest) \notin TokenStarts

\* C20 (as claimed): a call that has a byte in front of it that starts no
\* token fails with "invalid JSON literal", in every state.
C20_InvalidLiteralEveryState ==
    NoTokenAhead => IsParse(last, "invalid JSON literal")

\* C20 (amended): a call that has a byte in front of it that starts no
\* token fails with "invalid JSON literal" in the states Initial,
\* BeforeEntry and AfterKey, and with "missing comma" in state AfterValue.
C20_InvalidLiteralWhereValueFits ==
    NoTokenAhead =>
        IF EffState = "AfterValue"
        THEN IsParse(last, "missing comma")
        ELSE IsParse(last, "invalid JSON literal")

\* C20 witness: a letter directly after a number.
C20_Witness ==
    /\ NoTokenAhead /\ Head(EffRest) = B.x /\ pre.parked_next = Some(B.x)
    /\ EffState = "AfterValue" /\ IsParse(last, "missing comma")

\* C20 witness of the other states: a letter after a key.
C20_WitnessAfterKey ==
    /\ NoTokenAhead /\ EffState = "AfterKey" /\ IsParse(last, "invalid JSON literal")

\* No call so far has failed.
AllOk == \A i \in 1..Len(toks) : ~IsErr(toks[i])

\* What a call that returned a token has left of the bytes it had in front
\* of it: a bracket takes one byte and null four, a number its run of
\* bytes, a string its bytes and the whitespace after it, a key the colon
\* as well; EndOfStream leaves nothing.
LeftBy(t) ==
    CASE t.tag \in StartTags \cup EndTags -> Tail(EffRest)
      [] t.tag = "NullLiteral" -> SubSeq(EffRest, 5, Len(EffRest))
      [] t.tag = "NumberLiteral" -> AfterNumber
      [] t.tag = "StringLiteral" -> AfterString
      [] t.tag = "Key" -> Tail(AfterString)
      [] OTHER -> <<>>

\* C38: as long as no call has failed, the bytes that the reader has yet to
\* examine (the parked byte, then the rest of the source) are the bytes of
\* the input that follow the tokens returned so far, none lost and none
\* twice: every call leaves exactly the bytes that follow its token, and a
\* parked byte is the byte that the source delivered last.
C38_EveryByteExaminedOnce ==
    (Called /\ AllOk) =>
        /\ Len(rd.parked_next) <= 1
        /\ rd.parked_next # None =>
               /\ rd.reader_pos >= 1
               /\ rd.parked_next = Some(input[rd.reader_pos])
        /\ Rest(rd) = LeftBy(last)
        /\ last.tag # "EndOfStream" => Len(Rest(rd)) < Len(Rest(pre))

\* C38 witness: a number between two brackets was read, and the closing
\* bracket is parked.
C38_Witness ==
    /\ Called /\ AllOk /\ Len(toks) >= 2
    /\ last.tag = "NumberLiteral"
    /\ rd.parked_next = Some(B.rbracket)

\* C38 witness: a call began with a parked comma and returned the number
\* after it.
C38_WitnessParkedBefore ==
    /\ Called /\ AllOk
    /\ pre.parked_next = Some(B.comma)
    /\ last.tag = "NumberLiteral"

\* C38 witness: a string was followed by whitespace and a bracket, which is
\* parked.
C38_WitnessString ==
    /\ Called /\ AllOk
    /\ last.tag = "StringLiteral"
    /\ rd.parked_next = Some(B.rbracket)
    /\ input[rd.reader_pos - 1] = B.space

(***************************************************************************)
(* Reading one string literal or key with token buffers of several sizes   *)
(***************************************************************************)
MaxUnits == 3
MaxCap == 3

\* The pieces of a string's content: the bytes in the input (raw) and the
\* bytes they stand for (dec).
StringUnits ==
    { [raw |-> <<B.a>>, dec |-> <<B.a>>],
      [raw |-> <<B.lf>>, dec |-> <<B.lf>>],
      [raw |-> <<B.backslash, B.n>>, dec |-> <<B.lf>>],
      [raw |-> <<B.backslash, B.u, B.d0, B.d0, B.e, B.d4>>, dec |-> <<195, 164>>],
      [raw |-> <<B.backslash, B.u, B.d2, B.d0, B.a, B.c>>, dec |-> <<226, 130, 172>>] }

RawOf(us) == Concat([i \in 1..Len(us) |-> us[i].raw])
DecOf(us) == Concat([i \in 1..Len(us) |-> us[i].dec])

InitBuf ==
    /\ \E us \in UNION { [1..k -> StringUnits] : k \in 0..MaxUnits } :
       \E trailer \in {<<>>, <<B.colon>>, <<B.space, B.colon>>, <<B.rbracket>>} :
          /\ input = <<B.quote>> \o RawOf(us) \o <<B.quote>> \o trailer
          /\ expected = us
          /\ call = "none"
    /\ \E cap \in 0..MaxCap : rd = JsonReader_new(cap, FALSE)
    /\ pre = rd
    /\ last = NoResult
    /\ toks = <<>>
    /\ wr = IdleWriter
    /\ scopes = <<>>
    /\ wlast = IdleWLast
    /\ phase = "read"

SpecBuf == InitBuf /\ [][Next]_vars

RECURSIVE LocAfter(_)
\* The location after the first n bytes of the input have been read.
LocAfter(n) == IF n = 0 THEN LocationStart ELSE after_byte(LocAfter(n - 1), input[n])

FirstCall == Len(toks) = 1
Capacity == Len(rd.buf)
KeyAhead == LET t == SkipWs(SubSeq(input, Len(RawOf(expected)) + 3, Len(input)))
            IN  t # <<>> /\ Head(t) = B.colon

\* C6 (as claimed): with capacity c a string or key of exactly c content
\* bytes is returned, and one of c+1 content bytes fails with BufferOverflow
\* whose location is the location of the overflowing byte, that is of the
\* first input byte of the piece that yields the (c+1)-th content byte.
C6_OverflowAtByte ==
    FirstCall =>
        /\ Len(DecOf(expected)) = Capacity =>
              last = Tok(IF KeyAhead THEN "Key" ELSE "StringLiteral", DecOf(expected))
        /\ Len(DecOf(expected)) = Capacity + 1 =>
              /\ last.tag = "BufferOverflow"
              /\ last.loc = LocAfter(1 + Len(RawOf(expected))
                                       - Len(expected[Len(expected)].raw))

\* C6 (amended): with capacity c a string or key of exactly c content bytes
\* is returned, and one of c+1 content bytes fails with BufferOverflow whose
\* location is the reader's position directly after the input byte or escape
\* sequence that yields the (c+1)-th content byte.
C6_OverflowAfterByte ==
    FirstCall =>
        /\ Len(DecOf(expected)) = Capacity =>
              last = Tok(IF KeyAhead THEN "Key" ELSE "StringLiteral", DecOf(expected))
        /\ Len(DecOf(expected)) = Capacity + 1 =>
              /\ last.tag = "BufferOverflow"
              /\ last.loc = LocAfter(1 + Len(RawOf(expected)))

\* C6 witness: a buffer that is one byte too small, after a line break.
C6_Witness ==
    /\ FirstCall /\ Capacity >= 1
    /\ Len(DecOf(expected)) = Capacity + 1
    /\ last.tag = "BufferOverflow" /\ last.loc.line = 2

\* C6 witness of the other half: a content that fills the buffer exactly.
C6_WitnessFits ==
    /\ FirstCall /\ Capacity = MaxCap
    /\ Len(DecOf(expected)) = Capacity /\ last.tag = "Key"

(***************************************************************************)
(* Reading \u escapes, and strings that the end of the input cuts off      *)
(***************************************************************************)
MaxCutUnits == 2

\* 0-9 and a-f
HexLower == (B.d0 .. B.d9) \cup (B.a .. B.f)
\* The first and the last byte of the ranges 0-9, A-F, A-Z and a-f, and the
\* bytes next to them: / 0 9 : @ A F G Z [ ` a f g
EdgeBytes == {47, 48, 57, 58, 64, 65, 70, 71, 90, 91, 96, 97, 102, 103}

\* "\uABCD"
EscapeABCD == <<B.quote, B.backslash, B.u, 65, 66, 67, 68, B.quote>>

\* A string that is one \u escape with its four bytes
EscapeInputs ==
    { <<B.quote, B.backslash, B.u>> \o h \o <<B.quote>> :
          h \in [1..4 -> HexLower] \cup [1..4 -> EdgeBytes] } \cup { EscapeABCD }

\* An opening quote and the start of a string's content: the input ends
\* before the closing quote.
CutInputs ==
    UNION { { <<B.quote>> \o SubSeq(RawOf(us), 1, n) : n \in 0..Len(RawOf(us)) } :
              us \in UNION { [1..k -> StringUnits] : k \in 0..MaxCutUnits } }

InitEsc ==
    /\ input \in EscapeInputs \cup CutInputs
    /\ rd = JsonReader_new(Len(input), FALSE)
    /\ pre = rd
    /\ last = NoResult
    /\ toks = <<>>
    /\ wr = IdleWriter
    /\ scopes = <<>>
    /\ wlast = IdleWLast
    /\ expected = <<>>
    /\ call = "none"
    /\ phase = "read"

\* The first call of next()
FirstNext == toks = <<>> /\ ReaderNext

SpecEsc == InitEsc /\ [][FirstNext]_vars

IsEscapeInput ==
    /\ Len(input) = 8
    /\ SubSeq(input, 1, 3) = <<B.quote, B.backslash, B.u>> /\ input[8] = B.quote
    /\ \A i \in 4..7 : input[i] # B.quote
EscapeBytes == SubSeq(input, 4, 7)
\* 0-9, A-F, a-f
HexBytes == (48 .. 57) \cup (65 .. 70) \cup (97 .. 102)
HexValue(b) == IF b <= 57 THEN b - 48 ELSE IF b <= 70 THEN b - 55 ELSE b - 87
AllHex == \A i \in 1..4 : EscapeBytes[i] \in HexBytes
CodePoint ==
    4096 * HexValue(EscapeBytes[1]) + 256 * HexValue(EscapeBytes[2])
        + 16 * HexValue(EscapeBytes[3]) + HexValue(EscapeBytes[4])
NotFourHex == "not a four-digit hex number after \\u"

\* C17 (as claimed): the call that reads a string with a \u escape fails
\* with "not a four-digit hex number after \u" exactly if one of the four
\* bytes after \u is no hexadecimal digit (0-9, a-f, A-F).
C17_NonHexRejected ==
    (Len(toks) = 1 /\ IsEscapeInput) => (IsParse(last, NotFourHex) <=> ~AllHex)

\* The standard UTF-8 encoding of a code point below 0x10000
Utf8Of(cp) ==
    IF cp <= 127 THEN <<cp>>
    ELSE IF cp <= 2047 THEN <<192 + (cp \div 64), 128 + (cp % 64)>>
    ELSE <<224 + (cp \div 4096), 128 + ((cp \div 64) % 64), 128 + (cp % 64)>>

IsSurrogate(cp) == 55296 <= cp /\ cp <= 57343

\* C18: for every code point given as \u and four hexadecimal digits, the
\* bytes in the token buffer after the call are the standard UTF-8 encoding
\* of the code point (one, two or three bytes), and they are the payload of
\* the StringLiteral that is returned; for a surrogate (D800..DFFF) the
\* three bytes are in the buffer and the call fails, the bytes being no
\* valid UTF-8.
C18_CodePointAsUtf8 ==
    (Len(toks) = 1 /\ IsEscapeInput /\ AllHex) =>
        /\ SubSeq(rd.buf, 1, rd.ind_end_buf) = Utf8Of(CodePoint)
        /\ Len(Utf8Of(CodePoint)) =
              (IF CodePoint <= 127 THEN 1 ELSE IF CodePoint <= 2047 THEN 2 ELSE 3)
        /\ IF IsSurrogate(CodePoint) THEN last.tag = "Utf8"
           ELSE last = Tok("StringLiteral", Utf8Of(CodePoint))

\* C18 witness: \uABCD gives the bytes EA AF 8D.
C18_Witness ==
    /\ Len(toks) = 1 /\ input = EscapeABCD
    /\ last = Tok("StringLiteral", <<234, 175, 141>>)

\* C18 witness: \u0041 gives the byte 'A'.
C18_WitnessAscii ==
    /\ Len(toks) = 1 /\ IsEscapeInput /\ EscapeBytes = <<B.d0, B.d0, B.d4, B.d1>>
    /\ last = Tok("StringLiteral", <<B.uA>>)

IsCutInput == input \in CutInputs

RECURSIVE CutIn(_, _)
\* Where the content s ends: 0 between two characters, -1 directly after a
\* backslash, n > 0 where n of the four bytes of a \u escape are missing.
CutIn(s, mode) ==
    IF s = <<>> THEN mode
    ELSE IF mode = 0 THEN CutIn(Tail(s), IF Head(s) = B.backslash THEN 0 - 1 ELSE 0)
    ELSE IF mode < 0 THEN CutIn(Tail(s), IF Head(s) = B.u THEN 4 ELSE 0)
    ELSE CutIn(Tail(s), mode - 1)
CutMode == CutIn(Tail(input), 0)

\* C19 (as claimed): when the input ends after an opening quote and before
\* the closing quote, be it directly after a backslash or inside a \u
\* escape, the call fails with "unterminated string literal".
C19_CutIsUnterminated ==
    (Len(toks) = 1 /\ IsCutInput) => IsParse(last, "unterminated string literal")

\* C19 (amended): when the input ends after an opening quote and before the
\* closing quote, the call fails with "unterminated string literal" if the
\* input ends between two characters of the content, with "invalid escape
\* in string literal" if it ends directly after a backslash, and with
\* "incomplete UTF codepoint in string literal" if it ends after \u and
\* before the fourth byte after it.
C19_CutByPlace ==
    (Len(toks) = 1 /\ IsCutInput) =>
        CASE CutMode = 0 -> IsParse(last, "unterminated string literal")
          [] CutMode < 0 -> IsParse(last, "invalid escape in string literal")
          [] CutMode > 0 -> IsParse(last, "incomplete UTF codepoint in string literal")

\* C19 witness: the input ends inside the second \u escape of a string.
C19_Witness ==
    /\ Len(toks) = 1 /\ IsCutInput /\ CutMode = 2 /\ Len(input) > 7
    /\ IsParse(last, "incomplete UTF codepoint in string literal")

\* C19 witness: the input ends after a character of the content.
C19_WitnessPlain ==
    /\ Len(toks) = 1 /\ IsCutInput /\ CutMode = 0 /\ Len(input) > 1
    /\ IsParse(last, "unterminated string literal")

(***************************************************************************)
(* blocking/read.rs: the expect_next_.. methods                            *)
(***************************************************************************)
\* The token kinds each method accepts
ExpectAccepts ==
    [ expect_next_key              |-> {"Key", "EndObject"},
      expect_next_number           |-> {"NumberLiteral"},
      expect_next_opt_number       |-> {"NullLiteral", "NumberLiteral"},
      expect_next_string           |-> {"StringLiteral"},
      expect_next_opt_string       |-> {"NullLiteral", "StringLiteral"},
      expect_next_bool             |-> {"BooleanLiteral"},
      expect_next_opt_bool         |-> {"NullLiteral", "BooleanLiteral"},
      expect_next_start_object     |-> {"StartObject"},
      expect_next_opt_start_object |-> {"NullLiteral", "StartObject"},
      expect_next_start_array      |-> {"StartArray"},
      expect_next_opt_start_array  |-> {"NullLiteral", "StartArray"} ]

ExpectMethods == DOMAIN ExpectAccepts

\* n.parse::<u8>(): digits after an optional '+', the value at most 255
parse_u8(text) ==
    LET p == JsonNumber_parse(text)
    IN  p.ok /\ Head(text) # B.minus /\ p.value <= 255

\* The match of an expect_next_.. method on what next() returned (c), with
\* the location that was read before next() was called.
expect_match(location, c, method) ==
    IF IsErr(c.res) THEN c
    ELSE IF c.res.tag \in ExpectAccepts[method]
    THEN IF c.res.tag = "NumberLiteral" /\ ~parse_u8(c.res.val)
         THEN parse_err(c.r, "invalid number")
         ELSE c
    ELSE Ret(c.r, [tag |-> "UnexpectedEvent", val |-> <<>>, msg |-> "", loc |-> location])

expect_next(r, method) == expect_match(r.cur_location, next(r), method)

MaxExpectPieces == 3

\* {"a": 1 "b": 2} : an object whose second entry lacks the comma
MissingCommaSpaced ==
    <<B.lbrace, B.quote, B.a, B.quote, B.colon, B.space, B.d1, B.space,
      B.quote, B.b, B.quote, B.colon, B.space, B.d2, B.rbrace>>

ExpectPieces ==
    { <<B.lbracket>>, <<B.rbracket>>, <<B.lbrace>>, <<B.comma>>,
      <<B.space>>, <<B.lf>>, <<B.d1>>, <<B.minus>>, <<B.t, B.r, B.u, B.e>>,
      <<B.quote, B.a, B.quote>>, PlainKey, MissingCommaSpaced }

ExpectInputs ==
    { Concat(ps) : ps \in UNION { [1..k -> ExpectPieces] : k \in 0..MaxExpectPieces } }

InitExpect ==
    /\ input \in ExpectInputs
    /\ \E lenient \in BOOLEAN : rd = JsonReader_new(Len(input) + 1, lenient)
    /\ pre = rd
    /\ last = NoResult
    /\ toks = <<>>
    /\ wr = IdleWriter
    /\ scopes = <<>>
    /\ wlast = IdleWLast
    /\ expected = <<>>
    /\ call = "none"
    /\ phase = "read"

\* One call of an expect_next_.. method by the application, which stops at
\* the first error.
ExpectNext ==
    /\ phase = "read"
    /\ ~IsErr(last)
    /\ EosCount < MaxEosCalls
    /\ \E method \in ExpectMethods :
         LET c == expect_next(rd, method)
         IN  /\ rd' = c.r
             /\ last' = c.res
             /\ toks' = Append(toks, c.res)
    /\ pre' = rd
    /\ call' = "expect_next"
    /\ UNCHANGED <<input, wr, scopes, wlast, expected, phase>>

\* One call of next() by that application
NextUntilError == ~IsErr(last) /\ ReaderNext

NextExpect == ExpectNext \/ NextUntilError

SpecExpect == InitExpect /\ [][NextExpect]_vars

\* The offset of the first byte of the token the call had in front of it
TokenOffset == Len(input) - Len(EffRest)

\* C15 (as claimed): the UnexpectedEvent error of an expect_next_.. method
\* carries the location of the first byte of the token that was rejected.
C15_UnexpectedAtTokenStart ==
    (Called /\ last.tag = "UnexpectedEvent" /\ EffRest # <<>>) =>
        last.loc = LocAfter(TokenOffset)

MissingCommaCall == Called /\ IsParse(last, "missing comma")

\* How many bytes the call read before it found that the comma is missing:
\* the first byte of a value that is no string; a string, the whitespace
\* after it, and the byte after that.
DetectOffset ==
    IF StringAhead
    THEN Len(input) - Len(AfterString) + (IF AfterString = <<>> THEN 0 ELSE 1)
    ELSE TokenOffset + 1

\* C16 (as claimed): a "missing comma" error carries the location of the
\* first byte of the key or value in front of which the comma is missing.
C16_MissingCommaAtTokenStart ==
    MissingCommaCall => last.loc = LocAfter(TokenOffset)

\* C16 (amended): a "missing comma" error carries the reader's location at
\* the moment the error is found: directly after the first byte of a value
\* that is no string, and for a key or a string value directly after the
\* byte that follows the closing quote and the whitespace after it (for a
\* key, its ':'). For {"a": 1 "b": 2} that is offset 12, after the ':' of
\* "b", whose opening quote is at offset 8.
C16_MissingCommaWhereDetected ==
    /\ MissingCommaCall => last.loc = LocAfter(DetectOffset)
    /\ (MissingCommaCall /\ input = MissingCommaSpaced) =>
          (TokenOffset = 8 /\ last.loc = [offset |-> 12, line |-> 1, column |-> 13])

\* C16 witness: the error of the object {"a": 1 "b": 2}.
C16_Witness ==
    /\ MissingCommaCall /\ input = MissingCommaSpaced
    /\ Len(toks) = 4 /\ last.loc.offset = 12

(***************************************************************************)
(* nonblocking/read.rs: skipping a scope, skipping a value                 *)
(***************************************************************************)
MaxSkipPieces == 4

SkipPieces ==
    { <<B.lbracket>>, <<B.rbracket>>, <<B.lbrace>>, <<B.rbrace>>, <<B.comma>>,
      <<B.space>>, <<B.d1>>, <<B.quote, B.a, B.quote>>, PlainKey }

SkipInputs ==
    { Concat(ps) : ps \in UNION { [1..k -> SkipPieces] : k \in 0..MaxSkipPieces } }

InitSkip ==
    /\ input \in SkipInputs
    /\ \E lenient \in BOOLEAN : rd = JsonReader_new(Len(input) + 1, lenient)
    /\ pre = rd
    /\ last = NoResult
    /\ toks = <<>>
    /\ wr = IdleWriter
    /\ scopes = <<>>
    /\ wlast = IdleWLast
    /\ expected = <<>>
    /\ phase = "read"
    /\ call = "none"

\* The application calls a method of the non-blocking reader and awaits its
\* result; it stops at the first error.
SkipCalled(method, c) ==
    /\ phase = "read"
    /\ ~IsErr(last)
    /\ EosCount < MaxEosCalls
    /\ rd' = c.r
    /\ last' = c.res
    /\ toks' = Append(toks, c.res)
    /\ pre' = rd
    /\ call' = method
    /\ UNCHANGED <<input, wr, scopes, wlast, expected, phase>>

NbNext == SkipCalled("next", nb_next(rd))

SkipToEnd == SkipCalled("skip_to_end_of_current_scope", skip_to_end_of_current_scope(rd))

SkipValue == SkipCalled("skip_value", skip_value(rd))

NextSkip == NbNext \/ SkipToEnd \/ SkipValue

SpecSkip == InitSkip /\ [][NextSkip]_vars

\* What next() returns call after call from reader r on, with the reader
\* after each call, up to and including the first EndOfStream or error.
RECURSIVE TokensAhead(_)
TokensAhead(r) ==
    LET c == nb_next(r)
    IN  IF IsErr(c.res) \/ c.res.tag = "EndOfStream" THEN <<c>>
        ELSE <<c>> \o TokensAhead(c.r)

\* How many scopes are open after the i-th of the tokens ts, the scope that
\* was open before them included.
OpenAfter(ts, i) ==
    1 + Cardinality({ j \in 1..i : ts[j].res.tag \in StartTags })
      - Cardinality({ j \in 1..i : ts[j].res.tag \in EndTags })

\* The index of the End token that balances the Start before the tokens ts.
BalancingEnd(ts) ==
    { i \in 1..Len(ts) : /\ OpenAfter(ts, i) = 0
                         /\ \A j \in 1..(i - 1) : OpenAfter(ts, j) > 0 }

\* The outcome of skipping the tokens ts to the end of the scope that was
\* open before them: Ok directly after the balancing End token if there is
\* one, UnexpectedToken if the input ends first, and the error of next() if
\* a token before the balancing End cannot be read.
SkippedToEnd(ts) ==
    IF BalancingEnd(ts) # {}
    THEN LET i == CHOOSE i \in BalancingEnd(ts) : TRUE
         IN  /\ last = OkUnit
             /\ ts[i].res.tag \in EndTags
             /\ rd = ts[i].r
             /\ rd.parked_next = None
             /\ rd.reader_pos > 0
             /\ input[rd.reader_pos] \in {B.rbrace, B.rbracket}
             /\ nb_next(rd) = ts[i + 1]
    ELSE IF ts[Len(ts)].res.tag = "EndOfStream"
    THEN /\ last.tag = "UnexpectedToken"
         /\ rd.reader_pos = Len(input)
    ELSE last = ts[Len(ts)].res

AfterStart == Len(toks) >= 2 /\ toks[Len(toks) - 1].tag \in StartTags

\* C21: skip_to_end_of_current_scope(), called directly after next() has
\* returned a StartObject or StartArray, consumes the tokens up to and
\* including the End token that balances that Start, nested Start/End pairs
\* counted, and returns Ok with the reader directly after that End token;
\* if the input ends first it fails with UnexpectedToken (and an error of
\* next() on the way is handed on). It calls next() at most once per byte
\* that is left and once more, so it terminates.
C21_SkipToBalancingEnd ==
    (call = "skip_to_end_of_current_scope" /\ AfterStart) =>
        /\ SkippedToEnd(TokensAhead(pre))
        /\ Len(TokensAhead(pre)) <= Len(Rest(pre)) + 1

\* C21 witness: a scope with a nested scope in it was skipped.
C21_Witness ==
    /\ call = "skip_to_end_of_current_scope" /\ AfterStart
    /\ last = OkUnit
    /\ TokensAhead(pre)[1].res.tag \in StartTags

\* C21 witness: the input ended in the scope, after a nested scope.
C21_WitnessEndOfStream ==
    /\ call = "skip_to_end_of_current_scope" /\ AfterStart
    /\ last.tag = "UnexpectedToken"
    /\ \E i \in 1..Len(TokensAhead(pre)) : TokensAhead(pre)[i].res.tag \in EndTags

FirstAhead == TokensAhead(pre)[1]

\* C22: skip_value() consumes one complete value: one token if next()
\* returns a string, number, boolean or null, the tokens up to and including
\* the balancing End token if it returns StartObject or StartArray, so that
\* the following next() returns the token after the value; it fails with
\* UnexpectedToken if next() returns a Key, EndObject, EndArray or
\* EndOfStream (and an error of next() is handed on).
C22_SkipValueIsOneValue ==
    call = "skip_value" =>
        CASE IsErr(FirstAhead.res) -> last = FirstAhead.res
          [] FirstAhead.res.tag \in {"Key", "EndObject", "EndArray", "EndOfStream"} ->
                 last.tag = "UnexpectedToken"
          [] FirstAhead.res.tag \in StartTags ->
                 SkippedToEnd(Tail(TokensAhead(pre)))
          [] OTHER ->
                 /\ FirstAhead.res.tag \in ScalarTags
                 /\ last = OkUnit
                 /\ rd = FirstAhead.r

\* C22 witness: a nested value was skipped, and a number follows it.
C22_Witness ==
    /\ call = "skip_value"
    /\ last = OkUnit
    /\ FirstAhead.res.tag \in StartTags
    /\ nb_next(rd).res.tag = "NumberLiteral"

\* C22 witness: skip_value was called in front of a key.
C22_WitnessKey ==
    /\ call = "skip_value"
    /\ last.tag = "UnexpectedToken"
    /\ FirstAhead.res.tag = "Key"

(***************************************************************************)
(* Writing: the operations an application calls on a writer and its scopes *)
(***************************************************************************)
MaxOps == 5
MaxErrs == 2
MaxPlan == 4
MaxDepth == 2

\* The sink refuses the write_all calls of an operation at the positions F.
\* An operation ends with its first refused write, except end(), whose
\* destructor writes once more: no operation sees more than two refusals.
RECURSIVE MaxOf(_)
MaxOf(F) == IF F = {} THEN 0
            ELSE LET x == CHOOSE y \in F : TRUE IN Max(x, MaxOf(F \ {x}))
PlanOf(F) == [i \in 1..MaxOf(F) |-> i \in F]
FailingPlans ==
    { PlanOf(F) : F \in { G \in SUBSET (1..MaxPlan) : Cardinality(G) <= MaxErrs - wr.nerr /\ Cardinality(G) <= 2 } }
NoFailure == { <<>> }

KeyA == <<B.a>>
WriterKeys == { KeyA }
\* a string with a comma and a character that is escaped
WriterValues == { [kind |-> "string", str |-> <<B.comma, B.quote>>] }
Kinds == {"object", "array"}

\* What the reader is to make of what was written
StartTok(kind) == Tok(IF kind = "object" THEN "StartObject" ELSE "StartArray", <<>>)
EndTok(kind) == Tok(IF kind = "object" THEN "EndObject" ELSE "EndArray", <<>>)
ValueTok(v) ==
    CASE v.kind = "null"   -> Tok("NullLiteral", <<>>)
      [] v.kind = "bool"   -> Tok("BooleanLiteral", IF v.flag THEN <<1>> ELSE <<0>>)
      [] v.kind = "int"    -> Tok("NumberLiteral", <<v.num>>)
      [] v.kind = "string" -> Tok("StringLiteral", v.str)
ChildToks(sc, key, ts) == IF sc.kind = "object" THEN <<Tok("Key", key)>> \o ts ELSE ts

Top == scopes[Len(scopes)]
Outer == SubSeq(scopes, 1, Len(scopes) - 1)
CanCall == phase = "write" /\ ~wr.panicked /\ wr.nops < MaxOps
KeysFor(keys) == IF Top.sc.kind = "object" THEN keys ELSE { <<>> }

\* The part every operation has: the writer afterwards, and the record of
\* the call.
Called_(op, w, res) ==
    /\ wr' = [w EXCEPT !.plan = <<>>, !.nops = wr.nops + 1, !.nclose = 0]
    /\ wlast' = [op |-> op, res |-> res, sink_before |-> wr.sink,
                 stored_before |-> wr.unreported_error, nerr_before |-> wr.nerr,
                 n_before |-> IF scopes = <<>> THEN 0 ELSE Top.n,
                 nclose |-> w.nclose]
    /\ UNCHANGED <<input, rd, pre, last, toks, call>>

\* JsonObject::new(&mut writer), JsonArray::new(&mut writer)
NewScopeOp(plans) ==
    /\ CanCall /\ scopes = <<>>
    /\ \E kind \in Kinds : \E plan \in plans :
         LET x == Scope_new([wr EXCEPT !.plan = plan], kind)
         IN  /\ Called_("new", x.w, x.err)
             /\ scopes' = IF Failed(x) THEN <<>>
                          ELSE <<[sc |-> x.sc, n |-> 0, start |-> Len(x.w.sink)]>>
             /\ expected' = IF Failed(x) THEN expected ELSE Append(expected, StartTok(kind))
    /\ UNCHANGED <<phase, call>>

\* write_.._value on the innermost scope
WriteValueOp(plans, keys, values) ==
    /\ CanCall /\ scopes # <<>>
    /\ \E key \in KeysFor(keys) : \E v \in values : \E plan \in plans :
         LET x == write_value([wr EXCEPT !.plan = plan], Top.sc, key, v)
         IN  /\ Called_("write_value", x.w, x.err)
             /\ scopes' = Append(Outer, [Top EXCEPT !.sc = x.sc,
                                                    !.n = IF Failed(x) THEN @ ELSE @ + 1])
             /\ expected' = IF Failed(x) THEN expected
                            ELSE expected \o ChildToks(Top.sc, key, <<ValueTok(v)>>)
    /\ UNCHANGED <<phase, call>>

\* start_object, start_array on the innermost scope
StartNestedOp(plans, keys) ==
    /\ CanCall /\ scopes # <<>> /\ Len(scopes) < MaxDepth
    /\ \E key \in KeysFor(keys) : \E kind \in Kinds : \E plan \in plans :
         LET x == start_nested([wr EXCEPT !.plan = plan], Top.sc, key, kind)
             parent == [Top EXCEPT !.sc = x.sc, !.n = IF Failed(x) THEN @ ELSE @ + 1]
         IN  /\ Called_("start_nested", x.w, x.err)
             /\ scopes' = IF Failed(x) THEN Append(Outer, parent)
                          ELSE Append(Outer, parent)
                                 \o <<[sc |-> x.child[1], n |-> 0, start |-> Len(x.w.sink)]>>
             /\ expected' = IF Failed(x) THEN expected
                            ELSE expected \o ChildToks(Top.sc, key, <<StartTok(kind)>>)
    /\ UNCHANGED <<phase, call>>

\* end() on the innermost scope
EndOp(plans) ==
    /\ CanCall /\ scopes # <<>>
    /\ \E plan \in plans :
         LET x == scope_end_explicit([wr EXCEPT !.plan = plan], Top.sc)
         IN  /\ Called_("end", x.w, x.err)
             /\ scopes' = Outer
             /\ expected' = IF Failed(x) THEN expected
                            ELSE Append(expected, EndTok(Top.sc.kind))
    /\ UNCHANGED <<phase, call>>

\* The innermost scope goes out of scope without end()
DropOp(plans) ==
    /\ CanCall /\ scopes # <<>>
    /\ \E plan \in plans :
         LET w == scope_drop([wr EXCEPT !.plan = plan], Top.sc)
         IN  /\ Called_("drop", w, None)
             /\ scopes' = Outer
             /\ expected' = IF w.unreported_error # None \/ w.panicked THEN expected
                            ELSE Append(expected, EndTok(Top.sc.kind))
    /\ UNCHANGED <<phase, call>>

\* writer.flush(), possible when no scope borrows the writer
Flush ==
    /\ CanCall /\ scopes = <<>>
    /\ LET x == flush(wr) IN Called_("flush", x.w, x.err)
    /\ UNCHANGED <<scopes, expected, phase, call>>

\* writer.into_inner(): the writer is consumed
IntoInner ==
    /\ CanCall /\ scopes = <<>>
    /\ LET x == into_inner(wr) IN Called_("into_inner", x.w, x.err)
    /\ phase' = "closed"
    /\ UNCHANGED <<scopes, expected, call>>

NewScope == NewScopeOp(FailingPlans)
WriteValue == WriteValueOp(FailingPlans, WriterKeys, WriterValues)
StartNested == StartNestedOp(FailingPlans, WriterKeys)
End == EndOp(FailingPlans)
DropScope == DropOp(FailingPlans)

InitWriter ==
    /\ \E f \in {"compact", "pretty"} : \E oc \in BOOLEAN :
          \* only the pretty formatter has arithmetic that can overflow
          /\ (f = "compact" => oc)
          /\ wr = JsonWriter_new(f, oc)
    /\ scopes = <<>>
    /\ wlast = IdleWLast
    /\ expected = <<>>
    /\ call = "none"
    /\ phase = "write"
    /\ input = <<>>
    /\ rd = JsonReader_new(BufCap, FALSE)
    /\ pre = rd
    /\ last = NoResult
    /\ toks = <<>>

NextWriter == NewScope \/ WriteValue \/ StartNested \/ End \/ DropScope \/ Flush \/ IntoInner

SpecWriter == InitWriter /\ [][NextWriter]_vars

(***************************************************************************)
(* The errors of implicit closes                                           *)
(***************************************************************************)
ExplicitOps == {"new", "write_value", "start_nested", "end", "flush", "into_inner"}
ReturnsStored ==
    wlast.op \in ExplicitOps /\ wlast.stored_before # None /\ wlast.res = wlast.stored_before

\* C4: when the implicit close of a scope (a drop without end()) fails with
\* an error of the sink, that error is stored in the writer; and the explicit
\* operation that follows a stored error (a write, a new scope, end(),
\* flush() or into_inner()) returns that error.
C4_StoredErrorReturnedNext ==
    /\ (wlast.op = "drop" /\ wr.nerr > wlast.nerr_before)
          => wr.unreported_error = Some(wr.nerr)
    /\ (wlast.op \in ExplicitOps /\ wlast.stored_before # None)
          => wlast.res = wlast.stored_before

\* C4 witness: a write to an array that follows the failed implicit close of
\* a nested scope returns the error of that close.
C4_Witness ==
    /\ wlast.op = "write_value" /\ Top.sc.kind = "array"
    /\ wlast.stored_before # None /\ wlast.res = wlast.stored_before

\* C5 (as claimed): the explicit operation that returns a stored error
\* writes nothing to the sink, and the error is cleared by it: no error is
\* stored in the writer afterwards.
C5_ReturnWritesNothing ==
    ReturnsStored => (wr.sink = wlast.sink_before /\ wr.unreported_error = None)

\* C11 (as claimed): the close sequence of a scope (the formatter's step
\* before the close, then the closing bracket) is begun at most once for the
\* scope, whether it is closed by end() or by its destructor and whether
\* end() returned Ok or an error.
C11_CloseAtMostOnce ==
    wlast.op \in {"end", "drop"} => wlast.nclose <= 1

\* C34 (as claimed): an error is stored in the writer only by the implicit
\* close of a scope: after every explicit operation, end() included and
\* also when it returned an error, no error is stored, so that no later
\* operation reports the failure of an end() again.
C34_StoredOnlyByImplicitClose ==
    wr.unreported_error # None => wlast.op = "drop"

\* What holds of it: an error is stored by an implicit close or by an end()
\* that returned an error and whose scope was then closed a second time, by
\* its destructor, which failed as well; the error stored is that of the
\* second close, not the one end() returned.
C34_StoredByDropOrFailedEnd ==
    wr.unreported_error # None =>
        \/ wlast.op = "drop"
        \/ /\ wlast.op = "end"
           /\ wlast.res # None
           /\ wlast.nclose = 2
           /\ wr.unreported_error # wlast.res
           /\ wr.nerr = wlast.nerr_before + (IF wlast.res = wlast.stored_before THEN 1 ELSE 2)

\* An end() returned an error and left another one stored.
C34_EndStoredReached ==
    /\ wlast.op = "end"
    /\ wlast.res # None
    /\ wr.unreported_error # None

\* C35: an implicit close that finds an error stored in the writer leaves
\* that error stored, whether the sink would accept its writes or not, and
\* writes nothing; the explicit operation that follows returns it. So after
\* the implicit closes of a scope and then of the scopes around it, the
\* error returned is the one the innermost failing close stored.
C35_FirstStoredErrorKept ==
    /\ (wlast.op = "drop" /\ wlast.stored_before # None) =>
          /\ wr.unreported_error = wlast.stored_before
          /\ wr.sink = wlast.sink_before
          /\ ~wr.panicked
    /\ (wlast.op \in ExplicitOps /\ wlast.stored_before # None) =>
          /\ wlast.res = wlast.stored_before
          /\ wlast.res[1] <= wlast.nerr_before

\* C35 witness: a nested scope and then the scope around it were closed
\* implicitly; the first close failed, and its error is still the one
\* stored.
C35_Witness ==
    /\ wlast.op = "drop" /\ scopes = <<>>
    /\ wr.nops = 4 /\ wr.nerr = 1
    /\ wlast.stored_before = Some(1)
    /\ wr.unreported_error = Some(1)

\* C35 witness: the flush() after these two closes returned the error of the
\* first.
C35_WitnessReturned ==
    /\ wlast.op = "flush" /\ wr.nops = 5 /\ wr.nerr = 1
    /\ wlast.res = Some(1)
    /\ wr.unreported_error = None

(***************************************************************************)
(* The commas of a scope                                                   *)
(***************************************************************************)
RECURSIVE LevelCommas(_, _, _)
\* How many commas the bytes s have at nesting depth 0, outside of strings.
LevelCommas(s, depth, in_string) ==
    IF s = <<>> THEN 0
    ELSE LET b == Head(s) IN
         IF in_string
         THEN IF b = B.backslash THEN LevelCommas(Tail(Tail(s)), depth, TRUE)
              ELSE LevelCommas(Tail(s), depth, b # B.quote)
         ELSE CASE b = B.quote -> LevelCommas(Tail(s), depth, TRUE)
                [] b \in {B.lbrace, B.lbracket} -> LevelCommas(Tail(s), depth + 1, FALSE)
                [] b \in {B.rbrace, B.rbracket} -> LevelCommas(Tail(s), depth - 1, FALSE)
                [] b = B.comma /\ depth = 0 -> 1 + LevelCommas(Tail(s), depth, FALSE)
                [] OTHER -> LevelCommas(Tail(s), depth, FALSE)

Written == SubSeq(wr.sink, Len(wlast.sink_before) + 1, Len(wr.sink))
ChildOps == {"write_value", "start_nested"}
CloseOps == {"end", "drop"}
NoSinkError == wr.nerr = 0 /\ ~wr.panicked

\* C10: as long as the sink accepts every write, a scope with n child writes
\* has max(n-1, 0) commas at its nesting level; a child write starts with a
\* comma exactly if it is not the first child of its scope, and a close
\* writes no comma.
C10_CommasBetweenChildren ==
    NoSinkError =>
        /\ \A i \in 1..Len(scopes) :
              LevelCommas(SubSeq(wr.sink, scopes[i].start + 1, Len(wr.sink)), 0, FALSE)
                 = Max(scopes[i].n - 1, 0)
        /\ wlast.op \in ChildOps =>
              (Written # <<>> /\ (Head(Written) = B.comma <=> wlast.n_before >= 1))
        /\ wlast.op \in CloseOps =>
              /\ LevelCommas(Written, 0, FALSE) = 0
              /\ SkipWs(Written) \in {<<B.rbrace>>, <<B.rbracket>>}

\* C10 witness: a scope with three children, the last of them a nested
\* scope that has been closed again.
C10_Witness ==
    /\ NoSinkError /\ wlast.op \in CloseOps
    /\ Len(scopes) = 1 /\ scopes[1].n = 3
    /\ LevelCommas(SubSeq(wr.sink, scopes[1].start + 1, Len(wr.sink)), 0, FALSE) = 2

(***************************************************************************)
(* The layout of the pretty formatter, in deeply nested arrays             *)
(***************************************************************************)
MaxDeep == 121

DeepValue1 == [kind |-> "int", num |-> 1]

InitDeep ==
    /\ \E oc \in BOOLEAN : wr = JsonWriter_new("pretty", oc)
    /\ scopes = <<>>
    /\ wlast = IdleWLast
    /\ expected = <<>>
    /\ call = "none"
    /\ phase = "write"
    /\ input = <<>>
    /\ rd = JsonReader_new(0, FALSE)
    /\ pre = rd
    /\ last = NoResult
    /\ toks = <<>>

\* The application opens arrays in arrays, writes up to two numbers into the
\* innermost one, and then ends them from the inside out; the sink accepts
\* every write.
CanCallDeep == phase = "write" /\ ~wr.panicked

\* JsonArray::new(&mut writer), or start_array on the innermost array
DeepOpen ==
    /\ CanCallDeep /\ Len(scopes) < MaxDeep
    /\ wlast.op \in {"none", "new", "start_nested"}
    /\ IF scopes = <<>>
       THEN LET x == Scope_new(wr, "array")
            IN  /\ Called_("new", x.w, x.err)
                /\ scopes' = <<[sc |-> x.sc, n |-> 0, start |-> Len(x.w.sink)]>>
       ELSE LET x == start_nested(wr, Top.sc, <<>>, "array")
                parent == [Top EXCEPT !.sc = x.sc, !.n = IF Failed(x) THEN @ ELSE @ + 1]
            IN  /\ Called_("start_nested", x.w, x.err)
                /\ scopes' = IF Failed(x) THEN Append(Outer, parent)
                             ELSE Append(Outer, parent)
                                    \o <<[sc |-> x.child[1], n |-> 0, start |-> Len(x.w.sink)]>>
    /\ UNCHANGED <<expected, phase>>

\* write_i32_value(1) on the innermost array
DeepValue ==
    /\ CanCallDeep /\ scopes # <<>> /\ Top.n < 2
    /\ wlast.op # "end"
    /\ LET x == write_value(wr, Top.sc, <<>>, DeepValue1)
       IN  /\ Called_("write_value", x.w, x.err)
           /\ scopes' = Append(Outer, [Top EXCEPT !.sc = x.sc,
                                                  !.n = IF Failed(x) THEN @ ELSE @ + 1])
    /\ UNCHANGED <<expected, phase>>

\* end() on the innermost array
DeepEnd ==
    /\ CanCallDeep /\ scopes # <<>>
    /\ LET x == scope_end_explicit(wr, Top.sc)
       IN  /\ Called_("end", x.w, x.err)
           /\ scopes' = Outer
    /\ UNCHANGED <<expected, phase>>

NextDeep == DeepOpen \/ DeepValue \/ DeepEnd

SpecDeep == InitDeep /\ [][NextDeep]_vars

\* A newline and 2*k spaces
Indented(k) == <<B.lf>> \o [i \in 1..(2 * k) |-> B.space]

\* What the last operation wrote starts with the comma of a child that is
\* not the first, a newline and exactly 2*d spaces.
ChildLayout(d) ==
    LET lead == (IF wlast.n_before = 0 THEN <<>> ELSE <<B.comma>>) \o Indented(d)
    IN  /\ StartsWith(Written, lead)
        /\ Len(Written) > Len(lead)
        /\ Written[Len(lead) + 1] # B.space

\* What the last operation wrote is the closing bracket, directly after the
\* opening bracket if the scope is empty and else after a newline and exactly
\* 2*(d-1) spaces.
CloseLayout(d) ==
    IF wlast.n_before = 0
    THEN /\ Written \in {<<B.rbracket>>, <<B.rbrace>>}
         /\ wlast.sink_before[Len(wlast.sink_before)] \in {B.lbracket, B.lbrace}
    ELSE Written \in { Indented(d - 1) \o <<B.rbracket>>, Indented(d - 1) \o <<B.rbrace>> }

\* The layout at the depth d where the last operation acted, if it was a
\* child write or a close
LayoutOfLast ==
    /\ wlast.op = "write_value" => ChildLayout(Len(scopes))
    /\ wlast.op = "start_nested" => ChildLayout(Len(scopes) - 1)
    /\ wlast.op \in CloseOps => CloseLayout(Len(scopes) + 1)

\* C25 (as claimed): with the pretty formatter and a sink that accepts every
\* write, at every depth d >= 1 a child write succeeds and starts (after its
\* comma) with a newline and exactly 2*d spaces, the close of a non-empty
\* scope writes a newline, exactly 2*(d-1) spaces and the bracket, and the
\* close of an empty scope writes the bracket directly after the opening one.
C25_PrettyLayout ==
    (wr.formatter = "pretty" /\ wr.nerr = 0 /\ wlast.op \in ChildOps \cup CloseOps) =>
        /\ ~wr.panicked
        /\ wlast.res = None
        /\ LayoutOfLast

\* The depth up to which the INDENT string of the formatter reaches
MaxIndentDepth == (IndentLen - 1) \div 2

\* The layout holds for the children of the scopes down to depth
\* MaxIndentDepth and for every close.
C25_LayoutWithinIndent ==
    (wr.formatter = "pretty" /\ wr.nerr = 0 /\ wlast.op \in ChildOps \cup CloseOps
       /\ ~(wlast.op = "write_value" /\ Len(scopes) > MaxIndentDepth)) =>
        /\ ~wr.panicked
        /\ wlast.res = None
        /\ LayoutOfLast

\* A second child was written at depth MaxIndentDepth, and a non-empty scope
\* was closed.
C25_LayoutReached ==
    /\ wr.formatter = "pretty" /\ wr.nerr = 0
    /\ wlast.op = "end" /\ wlast.n_before = 2
    /\ Len(scopes) = MaxIndentDepth - 1

\* C26 (as claimed): the indentation depth of the pretty formatter is the
\* number of open scopes: one more after a scope was opened, one less after
\* it was closed by end() or by going out of scope, never below zero, and
\* zero when all scopes are closed.
C26_IndentIsOpenScopes ==
    wr.formatter = "pretty" =>
        /\ ~wr.panicked
        /\ wr.indent_level >= 0
        /\ wr.indent_level = Len(scopes)

\* The same while the sink accepts every write
C26_IndentIsOpenScopesNoSinkError ==
    (wr.formatter = "pretty" /\ wr.nerr = 0) =>
        /\ ~wr.panicked
        /\ wr.indent_level >= 0
        /\ wr.indent_level = Len(scopes)

(***************************************************************************)
(* Writing a value tree with the compact formatter and reading it back     *)
(***************************************************************************)
TreeKeys == { <<B.quote, 195, 164>> }
TreeValues ==
    { [kind |-> "null"], [kind |-> "bool", flag |-> TRUE], [kind |-> "bool", flag |-> FALSE],
      [kind |-> "int", num |-> 0], [kind |-> "int", num |-> 0 - 12],
      [kind |-> "int", num |-> 305],
      [kind |-> "string", str |-> <<>>],
      [kind |-> "string", str |-> <<B.backslash, B.slash, B.a>>],
      [kind |-> "string", str |-> <<1, B.lf, B.tab, 226, 130, 172>>] }

NewTree == wr.nops = 0 /\ NewScopeOp(NoFailure)
TreeValue == WriteValueOp(NoFailure, TreeKeys, TreeValues)
TreeNested == StartNestedOp(NoFailure, TreeKeys)
TreeEnd == EndOp(NoFailure)
TreeDrop == DropOp(NoFailure)

\* How many bytes of token buffer the token takes
RECURSIVE TextLen(_)
TextLen(t) ==
    IF t.tag \in {"Key", "StringLiteral"} THEN Len(t.val)
    ELSE IF t.tag = "NumberLiteral"
    THEN LET n == t.val[1] IN
         IF n < 0 THEN 1 + TextLen(Tok("NumberLiteral", <<0 - n>>))
         ELSE IF n < 10 THEN 1 ELSE 1 + TextLen(Tok("NumberLiteral", <<n \div 10>>))
    ELSE 0
RECURSIVE LongestToken(_)
LongestToken(ts) == IF ts = <<>> THEN 0 ELSE Max(TextLen(Head(ts)), LongestToken(Tail(ts)))

\* The tree is complete: a strict reader is created on the bytes of the sink,
\* its buffer as large as the longest token.
StartRead ==
    /\ phase = "write" /\ scopes = <<>> /\ wr.nops > 0
    /\ input' = wr.sink
    /\ rd' = JsonReader_new(LongestToken(expected), FALSE)
    /\ pre' = rd'
    /\ phase' = "read"
    /\ UNCHANGED <<last, toks, wr, scopes, wlast, expected, call>>

InitRoundTrip ==
    /\ wr = JsonWriter_new("compact", TRUE)
    /\ scopes = <<>>
    /\ wlast = IdleWLast
    /\ expected = <<>>
    /\ call = "none"
    /\ phase = "write"
    /\ input = <<>>
    /\ rd = JsonReader_new(0, FALSE)
    /\ pre = rd
    /\ last = NoResult
    /\ toks = <<>>

NextRoundTrip ==
    NewTree \/ TreeValue \/ TreeNested \/ TreeEnd \/ TreeDrop \/ StartRead \/ ReaderNext

SpecRoundTrip == InitRoundTrip /\ [][NextRoundTrip]_vars

\* The token is the one that was written
TokMatches(t, e) ==
    /\ t.tag = e.tag
    /\ t.tag \in {"Key", "StringLiteral", "BooleanLiteral"} => t.val = e.val
    /\ t.tag = "NumberLiteral" =>
          LET p == JsonNumber_parse(t.val) IN p.ok /\ p.value = e.val[1]

\* C3: the bytes of a value tree written with the compact formatter, all of
\* its scopes closed, are tokenized by a strict reader whose buffer holds the
\* longest token into exactly the tokens of the tree, every key and scalar
\* with the value that was written, and then EndOfStream.
C3_RoundTrip ==
    phase = "read" =>
        \A i \in 1..Len(toks) :
            /\ i <= Len(expected) => TokMatches(toks[i], expected[i])
            /\ i > Len(expected) => toks[i].tag = "EndOfStream"

\* C3 witness: a tree with a nested scope and a string that needs escapes
\* was read back to its end.
C3_Witness ==
    /\ phase = "read" /\ last.tag = "EndOfStream" /\ Len(toks) = Len(expected) + 1
    /\ \E i \in 1..Len(expected) : expected[i].tag = "StringLiteral" /\ Len(expected[i].val) = 6
    /\ \E i \in 2..Len(expected) : expected[i].tag \in {"StartObject", "StartArray"}

(***************************************************************************)
(* Writing one string with write_escaped_string and reading it back        *)
(***************************************************************************)
MaxStrChars == 2

\* The characters of the strings: every control character, the characters
\* with an escape of their own, some that are written as they are (0x7F
\* among them), and characters of two, three and four bytes.
StrChars ==
    { <<b>> : b \in 0..31 }
      \cup { <<B.quote>>, <<B.backslash>>, <<B.slash>>, <<B.space>>, <<B.colon>>,
             <<B.d0>>, <<B.a>>, <<B.u>>, <<127>> }
      \cup { <<195, 164>>, <<226, 130, 172>>, <<240, 159, 152, 128>> }

Strs == { Concat(cs) : cs \in UNION { [1..k -> StrChars] : k \in 0..MaxStrChars } }

InitString ==
    /\ \E s \in Strs : expected = <<Tok("StringLiteral", s)>>
    /\ wr = JsonWriter_new("compact", TRUE)
    /\ scopes = <<>>
    /\ wlast = IdleWLast
    /\ call = "none"
    /\ phase = "write"
    /\ input = <<>>
    /\ rd = JsonReader_new(0, FALSE)
    /\ pre = rd
    /\ last = NoResult
    /\ toks = <<>>

\* writer.write_escaped_string(s) on a sink that accepts every write
WriteEscapedString ==
    /\ phase = "write" /\ wr.nops = 0
    /\ LET x == write_escaped_string(wr, expected[1].val)
       IN  Called_("write_escaped_string", x.w, x.err)
    /\ UNCHANGED <<scopes, expected, phase>>

\* A strict reader whose buffer holds the string is created on the bytes of
\* the sink, which a colon may follow.
ReadWritten ==
    /\ phase = "write" /\ wr.nops = 1
    /\ \E trailer \in { <<>>, <<B.colon>>, <<B.space, B.colon>> } :
          input' = wr.sink \o trailer
    /\ rd' = JsonReader_new(Len(expected[1].val), FALSE)
    /\ pre' = rd'
    /\ phase' = "read"
    /\ UNCHANGED <<last, toks, wr, scopes, wlast, expected, call>>

NextString == WriteEscapedString \/ ReadWritten \/ ReaderNext

SpecString == InitString /\ [][NextString]_vars

LowerHex == <<48, 49, 50, 51, 52, 53, 54, 55, 56, 57, 97, 98, 99, 100, 101, 102>>

\* What byte b of a string is to be written as: \" \\ \b \f \n \r \t, \u00XX
\* for the other bytes below 0x20, every other byte as it is
ClaimedEscape(b) ==
    IF b = 34 THEN <<92, 34>>
    ELSE IF b = 92 THEN <<92, 92>>
    ELSE IF b = 8 THEN <<92, 98>>
    ELSE IF b = 12 THEN <<92, 102>>
    ELSE IF b = 10 THEN <<92, 110>>
    ELSE IF b = 13 THEN <<92, 114>>
    ELSE IF b = 9 THEN <<92, 116>>
    ELSE IF b < 32 THEN <<92, 117, 48, 48, LowerHex[(b \div 16) + 1], LowerHex[(b % 16) + 1]>>
    ELSE <<b>>

TheString == expected[1].val

\* C23: write_escaped_string writes an opening quote, for each byte of the
\* string \" for 0x22, \\ for 0x5C, \b \f \n \r \t for 0x08 0x0C 0x0A 0x0D
\* 0x09, \u00XX with lower-case hex digits for every other byte below 0x20
\* and every remaining byte as it is, and then a closing quote.
C23_EscapedAsClaimed ==
    wlast.op = "write_escaped_string" =>
        /\ wlast.res = None
        /\ wr.sink = <<34>> \o Concat([i \in 1..Len(TheString) |-> ClaimedEscape(TheString[i])])
                           \o <<34>>

\* C23 witness: a string with 0x1F, which has no escape of its own, and a
\* byte above 0x7F was written.
C23_Witness ==
    /\ wlast.op = "write_escaped_string"
    /\ \E i \in 1..Len(TheString) : TheString[i] = 31
    /\ \E i \in 1..Len(TheString) : TheString[i] >= 128

FirstRead == phase = "read" /\ Len(toks) = 1

\* C24: the first next() of a strict reader whose buffer holds s, on the
\* bytes write_escaped_string(s) wrote, returns a StringLiteral, or a Key
\* when a ':' follows, whose content is s byte for byte.
C24_UnescapeInvertsEscape ==
    FirstRead =>
        /\ last = Tok(IF input[Len(input)] = B.colon THEN "Key" ELSE "StringLiteral", TheString)
        /\ SubSeq(rd.buf, 1, rd.ind_end_buf) = TheString

\* C24 witness: a string with a \u00XX escape and a two-character escape was
\* read back as a key.
C24_Witness ==
    /\ FirstRead /\ last.tag = "Key"
    /\ \E i \in 1..Len(TheString) : TheString[i] = 11
    /\ \E i \in 1..Len(TheString) : TheString[i] = B.backslash

\* C24 witness: the same for a string value.
C24_WitnessString ==
    /\ FirstRead /\ last.tag = "StringLiteral"
    /\ \E i \in 1..Len(TheString) : TheString[i] = 27
    /\ \E i \in 1..Len(TheString) : TheString[i] = B.quote

(***************************************************************************)
(* Writing floating point numbers with the default format                  *)
(***************************************************************************)
MaxFloatExp == 10
MinFloatExp == 0 - MaxFloatExp

\* 1, 9, 1.234, 9.99999, 1.00001, 2 times a power of ten, both signs; zero
\* and minus zero; NaN and the infinities
FloatDigits == { <<1>>, <<9>>, <<2>>, <<1, 2, 3, 4>>, <<9, 9, 9, 9, 9, 9>>, <<1, 0, 0, 0, 0, 1>> }
NonFinite == { [class |-> c, neg |-> c = "-inf", digits |-> <<0>>, exp |-> 0] :
                 c \in {"nan", "inf", "-inf"} }
Floats ==
    { [class |-> "finite", neg |-> neg, digits |-> ds, exp |-> e] :
        neg \in BOOLEAN, ds \in FloatDigits, e \in MinFloatExp..MaxFloatExp }
      \cup { [class |-> "finite", neg |-> neg, digits |-> <<0>>, exp |-> 0] : neg \in BOOLEAN }
      \cup NonFinite

InitFloat ==
    /\ wr = JsonWriter_new("compact", TRUE)
    /\ scopes = <<>>
    /\ wlast = IdleWLast
    /\ expected = <<>>
    /\ call = "none"
    /\ phase = "write"
    /\ input = <<>>
    /\ rd = JsonReader_new(0, FALSE)
    /\ pre = rd
    /\ last = NoResult
    /\ toks = <<>>

\* writer.write_f64(value) on a new writer whose sink accepts every write;
\* `expected` keeps the value.
WriteF64 ==
    /\ phase = "write" /\ wr.nops = 0
    /\ \E v \in Floats :
         LET x == write_f64(wr, v)
         IN  /\ Called_("write_f64", x.w, x.err)
             /\ expected' = <<v>>
    /\ UNCHANGED <<scopes, phase>>

\* writer.write_f32(value)
WriteF32 ==
    /\ phase = "write" /\ wr.nops = 0
    /\ \E v \in Floats :
         LET x == write_f32(wr, v)
         IN  /\ Called_("write_f32", x.w, x.err)
             /\ expected' = <<v>>
    /\ UNCHANGED <<scopes, phase>>

NextFloat == WriteF64 \/ WriteF32

SpecFloat == InitFloat /\ [][NextFloat]_vars

FloatWritten == wlast.op \in {"write_f64", "write_f32"}
TheFloat == expected[1]

\* 0.001 <= |v| < 1000000 for v = d1.d2..dn * 10^exp with d1 > 0
ClaimedDecimal(v) == v.digits[1] # 0 /\ v.exp >= 0 - 3 /\ v.exp <= 5

\* Digits with at most one '.', after an optional '-'
IsPlainDecimal(t) ==
    /\ \A i \in 1..Len(t) : InR(t[i], B.d0, B.d9) \/ t[i] = B.dot \/ (i = 1 /\ t[i] = B.minus)
    /\ Cardinality({ i \in 1..Len(t) : t[i] = B.dot }) <= 1
    /\ \E i \in 1..Len(t) : InR(t[i], B.d0, B.d9)

\* A plain decimal, 'e', and an integer
IsExponential(t) ==
    \E i \in 2..(Len(t) - 1) :
        /\ t[i] = B.e
        /\ IsPlainDecimal(SubSeq(t, 1, i - 1))
        /\ LET x == SubSeq(t, i + 1, Len(t))
           IN  \A j \in 1..Len(x) : InR(x[j], B.d0, B.d9) \/ (j = 1 /\ x[j] = B.minus /\ Len(x) > 1)

\* C29: with the default float format a finite f64 or f32 v is written in
\* plain decimal notation exactly if 0.001 <= |v| < 1000000, and in
\* exponential notation otherwise, with a leading '-' exactly if its sign
\* is negative; NaN and the two infinities are written as null.
C29_DecimalInsideExponentialOutside ==
    FloatWritten =>
        /\ wlast.res = None
        /\ TheFloat.class # "finite" => wr.sink = <<B.n, B.u, B.l, B.l>>
        /\ TheFloat.class = "finite" =>
              /\ ClaimedDecimal(TheFloat) => IsPlainDecimal(wr.sink)
              /\ ~ClaimedDecimal(TheFloat) => IsExponential(wr.sink)
              /\ (wr.sink[1] = B.minus) <=> TheFloat.neg

\* C29 witness: -999999 was written in decimal notation.
C29_Witness ==
    /\ FloatWritten
    /\ TheFloat.class = "finite" /\ TheFloat.neg
    /\ TheFloat.digits = <<9, 9, 9, 9, 9, 9>> /\ TheFloat.exp = 5
    /\ wr.sink = <<B.minus, B.d9, B.d9, B.d9, B.d9, B.d9, B.d9>>

\* C29 witness: 1000000 was written as 1e6.
C29_WitnessUpperBound ==
    /\ FloatWritten
    /\ TheFloat.class = "finite" /\ ~TheFloat.neg
    /\ TheFloat.digits = <<1>> /\ TheFloat.exp = 6
    /\ wr.sink = <<B.d1, B.e, B.d0 + 6>>

\* C29 witness: 0.001 was written as 0.001, and 0.0009 as 9e-4.
C29_WitnessLowerBound ==
    /\ FloatWritten
    /\ TheFloat.class = "finite" /\ ~TheFloat.neg
    /\ \/ TheFloat.digits = <<1>> /\ TheFloat.exp = 0 - 3
          /\ wr.sink = <<B.d0, B.dot, B.d0, B.d0, B.d1>>
       \/ TheFloat.digits = <<9>> /\ TheFloat.exp = 0 - 4
          /\ wr.sink = <<B.d9, B.e, B.minus, B.d4>>

(***************************************************************************)
(* Reading an input, and the same input surrounded by whitespace           *)
(***************************************************************************)
MaxPadPieces == 2

\* Pieces of inputs: brackets, separators, values, a byte that starts no
\* token, and the cut pieces `"a`, `"\u0` and `nu`, with which an input can
\* end inside a token.
PadPieces ==
    { <<B.lbrace>>, <<B.rbrace>>, <<B.lbracket>>, <<B.rbracket>>,
      <<B.comma>>, <<B.colon>>, <<B.space>>, <<B.d1>>, <<B.x>>,
      <<B.quote, B.a, B.quote>>, <<B.n, B.u, B.l, B.l>>,
      <<B.quote, B.a>>, <<B.quote, B.backslash, B.u, B.d0>>,
      <<B.backslash>>, <<B.n, B.u>> }

PadInputs == { Concat(ps) : ps \in UNION { [1..k -> PadPieces] : k \in 0..MaxPadPieces } }

\* " \r\n\t": the whitespace that test_parse puts around its input
TestPadding == <<B.space, B.cr, B.lf, B.tab>>

WsRuns == { <<>>, <<B.space>>, <<B.lf>>, TestPadding }

InitPad ==
    /\ input \in PadInputs
    /\ \E lenient \in BOOLEAN : rd = JsonReader_new(BufCap, lenient)
    /\ pre = rd
    /\ last = NoResult
    /\ toks = <<>>
    /\ wr = IdleWriter
    /\ scopes = <<>>
    /\ wlast = IdleWLast
    /\ expected = <<>>
    /\ call = "none"
    /\ phase = "read"

RunEnded == IsErr(last) \/ last.tag = "EndOfStream"

\* One call of next() of a run that stops at the first error and at
\* EndOfStream.
PadNext == ~RunEnded /\ ReaderNext

\* The first run has ended: a new reader of the same kind is made for the
\* same input with whitespace before and after it. What the first run
\* returned is kept in `expected`.
PadInput ==
    /\ phase = "read"
    /\ expected = <<>>
    /\ RunEnded
    /\ \E lead \in WsRuns, trail \in WsRuns : input' = lead \o input \o trail
    /\ rd' = JsonReader_new(Len(rd.buf), rd.lenient_comma_handling)
    /\ pre' = rd'
    /\ last' = NoResult
    /\ toks' = <<>>
    /\ expected' = toks
    /\ call' = "none"
    /\ UNCHANGED <<wr, scopes, wlast, phase>>

NextPad == PadNext \/ PadInput

SpecPad == InitPad /\ [][NextPad]_vars

\* Two results are the same but for the location of an error.
SameResult(x, y) == x.tag = y.tag /\ x.val = y.val /\ x.msg = y.msg

SameResults(xs, ys, n) == \A i \in 1..n : SameResult(xs[i], ys[i])

\* Both runs have ended.
PaddedRunEnded == expected # <<>> /\ Called /\ RunEnded

PlainLast == expected[Len(expected)]

\* The plain input ended inside a string literal.
EndedInString ==
    \/ IsParse(PlainLast, "unterminated string literal")
    \/ IsParse(PlainLast, "incomplete UTF codepoint in string literal")

\* C32 (as claimed): the run on the padded input returns what the run on
\* the plain input returned, token by token, and ends as it ended: with
\* EndOfStream or with an error of the same kind and message.
C32_PaddingKeepsOutcome ==
    PaddedRunEnded =>
        /\ Len(toks) = Len(expected)
        /\ SameResults(toks, expected, Len(toks))

\* C32 (amended): the run on the padded input returns what the run on the
\* plain input returned, token by token, and ends as it ended, unless the
\* plain input ends inside a string literal. In that case the tokens before
\* the error are the same, and the whitespace after the input is read as
\* part of the string: an input that ended with "unterminated string
\* literal" ends with that error or with BufferOverflow, and one that ended
\* with "incomplete UTF codepoint in string literal" ends with that error or
\* with "not a four-digit hex number after \u".
C32_PaddingKeepsOutcomeOutsideStrings ==
    PaddedRunEnded =>
        /\ Len(toks) = Len(expected)
        /\ SameResults(toks, expected, Len(toks) - 1)
        /\ ~EndedInString => SameResult(last, PlainLast)
        /\ IsParse(PlainLast, "unterminated string literal") =>
               \/ SameResult(last, PlainLast)
               \/ last.tag = "BufferOverflow"
        /\ IsParse(PlainLast, "incomplete UTF codepoint in string literal") =>
               \/ SameResult(last, PlainLast)
               \/ IsParse(last, NotFourHex)

\* C32 witness: the padding of test_parse is around an input that gives
\* tokens and then an error, and the padded run ended with the same error.
C32_Witness ==
    /\ PaddedRunEnded
    /\ Len(input) >= 2 * Len(TestPadding) + 2
    /\ SubSeq(input, 1, Len(TestPadding)) = TestPadding
    /\ SubSeq(input, Len(input) - Len(TestPadding) + 1, Len(input)) = TestPadding
    /\ Len(toks) >= 2
    /\ last.tag = "Parse" /\ SameResult(last, PlainLast)

\* C32 witness: the padded run ended with EndOfStream after a number that
\* the end of the plain input had ended.
C32_WitnessNumber ==
    /\ PaddedRunEnded
    /\ Len(toks) = 2 /\ toks[1] = Tok("NumberLiteral", <<B.d1>>)
    /\ last.tag = "EndOfStream"
    /\ input[Len(input)] = B.tab

\* C32 witness: the whitespace after an unterminated string filled the
\* buffer.
C32_WitnessInString ==
    /\ PaddedRunEnded
    /\ IsParse(PlainLast, "unterminated string literal")
    /\ last.tag = "BufferOverflow"

(***************************************************************************)
(* Reading numbers and strings with token buffers of every small size      *)
(***************************************************************************)
MaxCapPieces == 3

\* Digits and a sign, strings of one, two and three bytes, and what it takes
\* to reach every state.
CapPieces ==
    { <<B.d1>>, <<B.minus>>,
      <<B.quote, B.a, B.quote>>, <<B.quote, B.a, B.a, B.quote>>,
      <<B.quote, B.a, B.a, B.a, B.quote>>,
      <<B.space>>, <<B.comma>>, <<B.colon>>, <<B.lbracket>> }

CapInputs == { Concat(ps) : ps \in UNION { [1..k -> CapPieces] : k \in 0..MaxCapPieces } }

\* JsonReader::new(buf_size, reader) takes every buf_size, zero included.
InitCap ==
    /\ input \in CapInputs
    /\ \E cap \in 0..MaxCap, lenient \in BOOLEAN : rd = JsonReader_new(cap, lenient)
    /\ pre = rd
    /\ last = NoResult
    /\ toks = <<>>
    /\ wr = IdleWriter
    /\ scopes = <<>>
    /\ wlast = IdleWLast
    /\ expected = <<>>
    /\ call = "none"
    /\ phase = "read"

SpecCap == InitCap /\ [][Next]_vars

\* The call had a number in front of it, in a state in which
\* state_change_for_value lets a value pass.
NumberToRead ==
    /\ Called /\ EffRest # <<>>
    /\ Head(EffRest) \in NumberStarts
    /\ EffState \in AcceptStates

\* The call had a string in front of it (the strings of CapInputs consist
\* of the letter a); its content.
ClosingQuotes ==
    { j \in 2..Len(EffRest) :
        EffRest[j] = B.quote /\ \A k \in 2..(j - 1) : EffRest[k] = B.a }
StringToRead ==
    /\ Called /\ EffRest # <<>>
    /\ Head(EffRest) = B.quote
    /\ ClosingQuotes # {}
StringContent ==
    LET closing == CHOOSE j \in ClosingQuotes : TRUE
    IN  SubSeq(EffRest, 2, closing - 1)

\* C33 (as claimed): with every capacity c >= 0 the buffer keeps its size
\* and ind_end_buf stays within 0..c, no call panics, and a number or string
\* of more than c bytes fails with BufferOverflow.
C33_OverflowNeverPanics ==
    /\ Len(rd.buf) = Len(pre.buf)
    /\ rd.ind_end_buf \in 0..Capacity
    /\ last.tag # "Panic"
    /\ (NumberToRead /\ Len(NumberAhead) > Capacity) => last.tag = "BufferOverflow"
    /\ (StringToRead /\ Len(StringContent) > Capacity) => last.tag = "BufferOverflow"

\* What holds of it: the buffer keeps its size and ind_end_buf stays within
\* 0..c with every capacity, a string of more than c bytes fails with
\* BufferOverflow with every capacity, and so does a number of more than c
\* bytes with c >= 1; with c = 0 every number panics, and nothing else does.
C33_OverflowWithNonEmptyBuffer ==
    /\ Len(rd.buf) = Len(pre.buf)
    /\ rd.ind_end_buf \in 0..Capacity
    /\ last.tag = "Panic" <=> (NumberToRead /\ Capacity = 0)
    /\ (NumberToRead /\ Len(NumberAhead) > Capacity /\ Capacity >= 1) =>
           last.tag = "BufferOverflow"
    /\ (StringToRead /\ Len(StringContent) > Capacity) => last.tag = "BufferOverflow"

\* A number of three bytes overflowed a buffer of two bytes.
C33_OverflowReached ==
    /\ NumberToRead /\ Capacity = 2 /\ Len(NumberAhead) = 3
    /\ last.tag = "BufferOverflow"

\* A number was read with a buffer of no bytes.
C33_PanicReached ==
    /\ NumberToRead /\ Capacity = 0
    /\ last.tag = "Panic"

(***************************************************************************)
(* Reading an input in strict mode, and then in lenient mode               *)
(***************************************************************************)
\* The reader of the first run is made with JsonReader::new.
InitLenient ==
    /\ input \in Inputs
    /\ rd = JsonReader_new(BufCap, FALSE)
    /\ pre = rd
    /\ last = NoResult
    /\ toks = <<>>
    /\ wr = IdleWriter
    /\ scopes = <<>>
    /\ wlast = IdleWLast
    /\ expected = <<>>
    /\ call = "none"
    /\ phase = "read"

\* One call of next() of a run that stops at the first error and at
\* EndOfStream.
NextOfRun == ~RunEnded /\ ReaderNext

\* The strict run has ended: a reader is made for the same input with
\* JsonReader::new_with_lenient_comma_handling and the same buffer size.
\* What the strict run returned is kept in `expected`.
ReadLenient ==
    /\ phase = "read"
    /\ ~rd.lenient_comma_handling
    /\ RunEnded
    /\ rd' = JsonReader_new(Len(rd.buf), TRUE)
    /\ pre' = rd'
    /\ last' = NoResult
    /\ toks' = <<>>
    /\ expected' = toks
    /\ call' = "none"
    /\ UNCHANGED <<input, wr, scopes, wlast, phase>>

NextLenient == NextOfRun \/ ReadLenient

SpecLenient == InitLenient /\ [][NextLenient]_vars

\* The lenient run has made as many calls as the strict run, or has ended.
LenientRun == rd.lenient_comma_handling /\ Called
StrictLast == expected[Len(expected)]

\* C36: on an input on which the strict reader returns tokens up to
\* EndOfStream and no error, the lenient reader with the same buffer returns
\* the same tokens, call by call. And the lenient mode changes nothing but
\* the outcome of "missing comma": on an input on which the strict reader
\* fails, the lenient reader returns the same tokens before the failure, and
\* the same failure unless it is "missing comma".
C36_LenientSameOnStrictInputs ==
    LenientRun =>
        /\ Len(toks) <= Len(expected) =>
               SameResults(toks, expected, Len(toks) - 1)
        /\ (Len(toks) <= Len(expected) /\ ~IsParse(expected[Len(toks)], "missing comma")) =>
               last = expected[Len(toks)]
        /\ (RunEnded /\ ~IsParse(StrictLast, "missing comma")) => toks = expected
        /\ Len(toks) > Len(expected) => IsParse(StrictLast, "missing comma")

\* C36 witness: both runs read [{"a":1}] to EndOfStream.
C36_Witness ==
    /\ LenientRun /\ RunEnded
    /\ input = <<B.lbracket>> \o JsonLine1 \o <<B.rbracket>>
    /\ last.tag = "EndOfStream"
    /\ Len(toks) = 7 /\ toks = expected

\* C36 witness: the lenient run went on where the strict run had failed with
\* "missing comma".
C36_WitnessMissingComma ==
    /\ LenientRun
    /\ IsParse(StrictLast, "missing comma")
    /\ Len(toks) > Len(expected)

\* C36 witness: both runs failed with the same error after the same tokens.
C36_WitnessSameError ==
    /\ LenientRun /\ RunEnded
    /\ Len(toks) >= 2 /\ toks = expected
    /\ IsParse(last, "unexpected comma")

====
